---- MODULE Spec2Model ----
(***************************************************************************)
(* Model of the concurrent Check evaluator of openfga                      *)
(* (internal/graph/check.go): the three reducers union, intersection and   *)
(* exclusion with the resolver that feeds them, and the recursive          *)
(* evaluation DispatchCheck / checkRewrite / checkDirect / checkTTU built  *)
(* on top of them.                                                         *)
(*                                                                         *)
(* Every call of a reducer is a frame.  Frames form a tree: the worker i   *)
(* of the frame at path p that runs a handler which itself calls a reducer *)
(* owns the frame at path p \o <<i>>.  Each goroutine of a frame (the      *)
(* caller inside the reducer, the resolver's orchestrator, one worker per  *)
(* started handler) moves by its own actions, so every interleaving the Go *)
(* scheduler can produce is a behaviour of the model.                      *)
(***************************************************************************)
EXTENDS Naturals, Integers, Sequences, FiniteSets, TLC

VARIABLES
    frames,           \* path -> frame: the reducer calls in progress
    callerCancelled,  \* the root context (the caller's ctx) has been cancelled
    model,            \* the type system of the request: type -> relation -> rewrite
    related,          \* the type system: type -> relation -> directly related user types
    store,            \* the tuples of the datastore, in insertion order
    rootReq,          \* the request handed to the root DispatchCheck
    rootK,            \* ConcurrentChecker.concurrencyLimit
    rootRet,          \* what the root DispatchCheck returned (NoRet before)
    panicked,         \* a goroutine sent on a closed channel
    guards,           \* number of DispatchCheck calls that passed the depth guard
    zeroHit,          \* some DispatchCheck was called with depth 0
    zeroWork,         \* a relation was resolved or a tuple read for a depth-0 request
    errSeen,          \* a handler returned an error that is not a cancellation
    iterLeaked,       \* a handler returned and left the iterator it opened unstopped
    typesystemInCtx,  \* ListUsers: the caller's context carries the type system
    dsFaulty,         \* ListUsers: reads of the datastore may fail
    resolveNodeBreadthLimit, \* listUsersQuery.resolveNodeBreadthLimit
    luReq,            \* the request handed to ListUsers
    tasks,            \* the goroutines running expand, by path
    producer,         \* the goroutine that runs the root expand
    foundObjectsCh,   \* buffer of foundObjectsCh
    foundClosed,      \* foundObjectsCh is closed
    collector,        \* the goroutine that ranges over foundObjectsCh
    foundObjects,     \* the slice the collector appends to
    done,             \* buffer of the done channel
    expandErrCh,      \* buffer of expandErrCh
    luRet,            \* what ListUsers returned
    luPanicked,       \* a goroutine of ListUsers panicked
    levels,           \* the requests of the expand calls made so far
    sent,             \* the objects sent on foundObjectsCh so far
    failed,           \* an expand call returned an error
    luStreamed,       \* the function called is StreamedListUsers
    srvObjects,       \* the objects sent on the stream of StreamedListUsers
    foundObject,      \* the object the collector of StreamedListUsers is sending
    maxSamples,       \* boundedQuantileApproximator.maxSamples
    tdigests,         \* boundedQuantileApproximator.tdigests, the samples of each
    quantileSec,      \* what Quantile returned last (the hedger's quantileSec)
    hedgeKind,        \* the read of hedgedDatastore that is called
    hedgerPc,         \* where the hedger's goroutine is
    timer,            \* the hedger's timer: none, armed, fired, received
    hctxCancelled,    \* the hedger's context has been cancelled
    calls,            \* the invocations of hedgedfunc: 1 original, 2 hedged
    once,             \* the sync.Once of the read has run its function
    hIter,            \* the read's iter: the invocation whose iterator it is, 0 nil
    hErr,             \* the read's err is not nil
    resolved,         \* the channels resolved (1) and hedgedResolved (2)
    duration,         \* the hedger's duration, 0 before it is measured
    hedgeRet,         \* what the hedged read returned to its caller
    resolvedAtFire,   \* the original had resolved when the timer fired
    completions,      \* the invocations in the order they completed
    readOrder,        \* the invocations in the order their downstream reads returned
    mPairs,           \* the (objectType, relation) pairs of the type system
    mDialect,         \* MaterializerInput.Dialect
    mOut,             \* what Materialize returned
    view,             \* the rows of each CTE of the view, while it is evaluated
    viewPc,           \* the view: none, rejected, iterating, fixed
    changelog,        \* indexer: the changes of the store's changelog, in order
    pageSize,         \* indexer: the page size of ReadChanges
    checkAllowed,     \* indexer: the (object, subject) pairs whose Check is allowed
    clientFaulty,     \* indexer: a call of the openfga client may fail
    failures,         \* indexer: the calls of ExpandedReadChanges that failed
    contToken,        \* ExpandedReadChanges: contToken
    changes,          \* ExpandedReadChanges: the changes of the page not processed yet
    toCheck,          \* ExpandedReadChanges: the pairs of the change not checked yet
    indexerPc,        \* ExpandedReadChanges: none, read, change, pairs, returned
    srvSent           \* the messages sent on the stream, in order

listing == <<typesystemInCtx, dsFaulty, resolveNodeBreadthLimit, luReq, tasks,
             producer, foundObjectsCh, foundClosed, collector, foundObjects, done,
             expandErrCh, luRet, luPanicked, levels, sent, failed, luStreamed,
             srvObjects, foundObject>>

hedging == <<maxSamples, tdigests, quantileSec, hedgeKind, hedgerPc, timer,
             hctxCancelled, calls, once, hIter, hErr, resolved, duration, hedgeRet,
             resolvedAtFire, completions, readOrder>>

viewing == <<mPairs, mDialect, mOut, view, viewPc>>

indexing == <<changelog, pageSize, checkAllowed, clientFaulty, failures, contToken,
              changes, toCheck, indexerPc, srvSent>>

\* what the actions of the checker, and those of ListUsers, leave alone
beyondCheck == <<listing, hedging, viewing, indexing>>

vars == <<frames, callerCancelled, model, related, store, rootReq, rootK, rootRet,
          panicked, guards, zeroHit, zeroWork, errSeen, iterLeaked, listing, hedging, viewing,
          indexing>>

ghost == <<guards, zeroHit, zeroWork, errSeen, iterLeaked>>
scenario == <<model, related, store, rootReq, rootK>>

----------------------------------------------------------------------------
(* Bounds of the model. *)

MaxHandlers == 2      \* handlers of a reducer call with abstract handlers
MaxK == 2             \* concurrency limits 1..MaxK
MaxDepth == 2         \* root depths 0..MaxDepth

\* ResolutionMetadata.Depth is a uint32.  A depth is written as the int32
\* with the same bits, so that 0 - 1 = 2^32 - 1 is the value -1.
DepthMinusOne(d) == IF d = 0 THEN 0 - 1 ELSE d - 1

----------------------------------------------------------------------------
(* Outcomes: checkOutcome{resp, err}.  resp is "allowed", "denied" (a      *)
(* response with Allowed false) or "nil"; err is "nil" or the error.       *)

Outcome(resp, err) == [resp |-> resp, err |-> err]
NoRet == Outcome("none", "none")
Allowed == Outcome("allowed", "nil")
Denied == Outcome("denied", "nil")
ErrCancelled == "context canceled"
ErrDepth == "resolution depth exceeded"
ErrUndefined == "relation undefined"

\* result.resp.GetAllowed(): false on a nil response
GetAllowed(o) == o.resp = "allowed"

\* the error an abstract handler at position i fails with
AbsErrs == <<"e1", "e2", "e3", "e4", "e5">>

NoReq == [obj |-> [type |-> "", id |-> ""], rel |-> "",
          user |-> [type |-> "", id |-> "", rel |-> ""], depth |-> 0]

\* A CheckHandlerFunc.  h names the closure; the other fields are what it
\* captured.
Handler(h, nat, req, tr, cr, red, kids) ==
    [h |-> h, nat |-> nat, req |-> req, tr |-> tr, cr |-> cr, red |-> red,
     kids |-> kids]

AbsHandler(nat) == Handler("abs", nat, NoReq, "", "", "", <<>>)

\* what an abstract handler at position i returns when it runs to its end
AbsOutcome(nat, i) ==
    CASE nat = "allowed" -> Allowed
      [] nat = "denied" -> Denied
      [] OTHER -> Outcome("nil", AbsErrs[i])

----------------------------------------------------------------------------
(* Frames. *)

Kinds == {"union", "intersection", "exclusion"}

\* resultChan := make(chan checkOutcome, len(handlers));
\* baseChan, subChan := make(chan checkOutcome, 1)
ChanCap(kind, n) == IF kind = "exclusion" THEN 1 ELSE n

\* the channel worker i publishes on
ChanOf(kind, i) == IF kind = "exclusion" THEN i ELSE 1

\* The state of a reducer call once it has set up its channels and, for
\* union and intersection, called resolver (which made the limiter, did
\* wg.Add(1) and started the orchestrator).
NewFrame(kind, k, handlers, req) ==
    [kind |-> kind, K |-> k, handlers |-> handlers, req |-> req,
     pc |-> IF kind = "exclusion" THEN "launch" ELSE "loop",
     i |-> 0,
     li |-> 1,
     ret |-> NoRet,
     cancelled |-> FALSE,
     limiter |-> 0,
     limClosed |-> FALSE,
     wg |-> IF kind = "exclusion" THEN 0 ELSE 1,
     orch |-> IF kind = "exclusion" THEN Len(handlers) + 2 ELSE 1,
     w |-> [j \in 1..Len(handlers) |-> "idle"],
     out |-> [j \in 1..Len(handlers) |-> NoRet],
     chans |-> IF kind = "exclusion" THEN <<<<>>, <<>>>> ELSE <<<<>>>>,
     chClosed |-> FALSE,
     taken |-> <<>>]

Root == <<>>

IsPrefix(q, p) == Len(q) <= Len(p) /\ SubSeq(p, 1, Len(q)) = q

\* ctx.Done() of the reducer call at p is readable: the caller's context or
\* the child scope of an enclosing reducer call has been cancelled.
CtxDone(p) ==
    \/ callerCancelled
    \/ \E q \in DOMAIN frames :
          Len(q) < Len(p) /\ IsPrefix(q, p) /\ frames[q].cancelled

\* cctx.Done() of the reducer call at p: cctx is a child of ctx
CctxDone(p) == CtxDone(p) \/ frames[p].cancelled

NumHandlers(f) == Len(f.handlers)

----------------------------------------------------------------------------
(* The reducers' rules.  Each returns the outcome the reducer returns on   *)
(* taking outcome o from its channel, or NoRet when the loop goes on.      *)

\* union that does not stop at an allowed outcome
UnionDecideNoStop(o) ==
    IF o.err # "nil" THEN Outcome("denied", o.err) ELSE NoRet

\* union, the body of "case result := <-resultChan"
UnionDecide(o) ==
    IF o.err # "nil" THEN Outcome("denied", o.err)
    ELSE IF GetAllowed(o) THEN o
    ELSE NoRet

\* intersection that reads an error as a denied outcome
IntersectionDecideSwallow(o) ==
    IF o.err # "nil" \/ o.resp # "allowed" THEN Denied ELSE NoRet

\* intersection that does not stop at a denied outcome
IntersectionDecideNoStop(o) ==
    IF o.err # "nil" THEN Outcome("denied", o.err) ELSE NoRet

\* intersection, the body of "case result := <-resultChan"
IntersectionDecide(o) ==
    IF o.err # "nil" THEN Outcome("denied", o.err)
    ELSE IF ~GetAllowed(o) THEN o
    ELSE NoRet

\* exclusion that reads the base outcome as the sub outcome and back
ExclusionDecideSwapped(src, o) ==
    IF o.err # "nil" THEN Outcome("denied", o.err)
    ELSE IF src = 2 /\ o.resp # "allowed" THEN Denied
    ELSE IF src = 1 /\ o.resp = "allowed" THEN Denied
    ELSE NoRet

\* exclusion, "case baseResult := <-baseChan" (src = 1) and
\* "case subResult := <-subChan" (src = 2)
ExclusionDecide(src, o) ==
    IF o.err # "nil" THEN Outcome("denied", o.err)
    ELSE IF src = 1 /\ o.resp # "allowed" THEN Denied
    ELSE IF src = 2 /\ o.resp = "allowed" THEN Denied
    ELSE NoRet

Decide(kind, src, o) ==
    CASE kind = "union" -> UnionDecide(o)
      [] kind = "intersection" -> IntersectionDecide(o)
      [] OTHER -> ExclusionDecide(src, o)

\* the return statement after the loop
LoopResult(kind) == IF kind = "union" THEN Denied ELSE Allowed

\* "case <-ctx.Done(): return nil, ctx.Err()"
CtxErrResult == Outcome("nil", ErrCancelled)

\* a limiter that never blocks
CanAcquireAlways(f) == TRUE

\* a limiter made with one slot less than the limit
CanAcquireOneLess(f) == f.limiter < f.K - 1

\* a slot of the limiter is free: "limiter <- struct{}{}" can proceed
CanAcquire(f) == f.limiter < f.K

\* a wait that does not wait
WaitDoneAtOnce(f) == TRUE

\* wg.Wait() returns
WaitDone(f) == f.wg = 0

----------------------------------------------------------------------------
(* The statements of the goroutines of a reducer call, as changes of its   *)
(* frame f.                                                                *)

\* "limiter <- struct{}{}; wg.Add(1); go checker(fn)" for handler j
StAcquire(f, j) ==
    [f EXCEPT !.limiter = @ + 1, !.wg = @ + 1, !.w[j] = "running"]

\* resolver's orchestrator goes on to the next handler
StOrchNext(f) == [f EXCEPT !.orch = @ + 1]

\* resolver's orchestrator after its loop: "wg.Done()"
StOrchDone(f) == [f EXCEPT !.wg = @ - 1, !.orch = NumHandlers(f) + 2]

\* worker i: "resp, err := fn(ctx)" has returned o
StResult(f, i, o) == [f EXCEPT !.out[i] = o, !.w[i] = "publish"]

\* worker i: "resultChan <- checkOutcome{resp, err}"
StPublish(f, i) ==
    [f EXCEPT !.chans[ChanOf(f.kind, i)] = Append(@, f.out[i]),
              !.out[i] = NoRet,
              !.w[i] = "release"]

\* worker i: "<-limiter"
StRelease(f, i) ==
    [f EXCEPT !.limiter = IF @ > 0 THEN @ - 1 ELSE 0, !.w[i] = "wgdone"]

\* worker i: "wg.Done()", the goroutine ends
StWorkerDone(f, i) == [f EXCEPT !.wg = @ - 1, !.w[i] = "exited"]

\* the reducer's loop takes the outcome at the head of channel c and
\* applies its rule: it returns, or loops
StTake(f, c) ==
    LET o == Head(f.chans[c])
        r == Decide(f.kind, c, o)
    IN  [f EXCEPT !.chans[c] = Tail(@),
                  !.taken = Append(@, [src |-> c, o |-> o]),
                  !.i = @ + 1,
                  !.ret = r,
                  !.pc = IF r = NoRet THEN "loop" ELSE "cancel"]

\* the reducer's loop, "case <-ctx.Done(): return nil, ctx.Err()"
StCtxDone(f) == [f EXCEPT !.ret = CtxErrResult, !.pc = "cancel"]

\* the return after the loop
StLoopEnd(f) == [f EXCEPT !.ret = LoopResult(f.kind), !.pc = "cancel"]

StCancelSkipped(f) == [f EXCEPT !.pc = "drain"]

\* deferred function: "cancel()"
StCancel(f) == [f EXCEPT !.cancelled = TRUE, !.pc = "drain"]

\* deferred function: "drain()" of union and intersection is wg.Wait();
\* close(limiter); exclusion has wg.Wait() and never closes its limiter
StDrain(f) == [f EXCEPT !.limClosed = (f.kind # "exclusion"), !.pc = "close"]

\* deferred function: "close(resultChan)" (close(baseChan);
\* close(subChan)); the reducer has returned
StClose(f) == [f EXCEPT !.chClosed = TRUE, !.pc = "returned"]

----------------------------------------------------------------------------
(* The goroutines of a reducer call at path p, statement by statement. *)

\* Orchestrator of resolver, "case limiter <- struct{}{}"
OrchStart(p) ==
    /\ p \in DOMAIN frames
    /\ LET f == frames[p] IN
         /\ f.orch <= NumHandlers(f)
         /\ CanAcquire(f)
         /\ frames' = [frames EXCEPT ![p] = StOrchNext(StAcquire(f, f.orch))]
    /\ UNCHANGED <<beyondCheck, callerCancelled, scenario, rootRet, panicked, ghost>>

\* Orchestrator of resolver, "case <-ctx.Done(): break": the break leaves
\* the select, and the loop goes on with the next handler.
OrchSkip(p) ==
    /\ p \in DOMAIN frames
    /\ LET f == frames[p] IN
         /\ f.orch <= NumHandlers(f)
         /\ CctxDone(p)
         /\ frames' = [frames EXCEPT ![p] = StOrchNext(f)]
    /\ UNCHANGED <<beyondCheck, callerCancelled, scenario, rootRet, panicked, ghost>>

\* Orchestrator of resolver, after the loop: wg.Done()
OrchDone(p) ==
    /\ p \in DOMAIN frames
    /\ LET f == frames[p] IN
         /\ f.orch = NumHandlers(f) + 1
         /\ frames' = [frames EXCEPT ![p] = StOrchDone(f)]
    /\ UNCHANGED <<beyondCheck, callerCancelled, scenario, rootRet, panicked, ghost>>

\* exclusion, "limiter <- struct{}{}; wg.Add(1); go func() {...}()" for the
\* base handler and then for the sub handler, in the caller's goroutine
ExclLaunch(p) ==
    /\ p \in DOMAIN frames
    /\ LET f == frames[p] IN
         /\ f.pc = "launch"
         /\ CanAcquire(f)
         /\ frames' = [frames EXCEPT ![p] =
                [StAcquire(f, f.li) EXCEPT !.li = @ + 1,
                                           !.pc = IF f.li = 2 THEN "loop" ELSE "launch"]]
    /\ UNCHANGED <<beyondCheck, callerCancelled, scenario, rootRet, panicked, ghost>>

\* Worker: "resultChan <- checkOutcome{resp, err}".  Blocks while the
\* channel is full; panics when the channel is closed.
Publish(p, i) ==
    /\ p \in DOMAIN frames
    /\ LET f == frames[p] IN
         /\ i \in 1..NumHandlers(f)
         /\ f.w[i] = "publish"
         /\ IF f.chClosed
            THEN /\ panicked' = TRUE
                 /\ frames' = [frames EXCEPT ![p].w[i] = "exited"]
            ELSE /\ Len(f.chans[ChanOf(f.kind, i)]) < ChanCap(f.kind, NumHandlers(f))
                 /\ panicked' = panicked
                 /\ frames' = [frames EXCEPT ![p] = StPublish(f, i)]
    /\ UNCHANGED <<beyondCheck, callerCancelled, scenario, rootRet, ghost>>

\* Worker: "<-limiter"
Release(p, i) ==
    /\ p \in DOMAIN frames
    /\ LET f == frames[p] IN
         /\ i \in 1..NumHandlers(f)
         /\ f.w[i] = "release"
         /\ f.limiter > 0 \/ f.limClosed
         /\ frames' = [frames EXCEPT ![p] = StRelease(f, i)]
    /\ UNCHANGED <<beyondCheck, callerCancelled, scenario, rootRet, panicked, ghost>>

\* Worker: "wg.Done()"
WorkerDone(p, i) ==
    /\ p \in DOMAIN frames
    /\ LET f == frames[p] IN
         /\ i \in 1..NumHandlers(f)
         /\ f.w[i] = "wgdone"
         /\ frames' = [frames EXCEPT ![p] = StWorkerDone(f, i)]
    /\ UNCHANGED <<beyondCheck, callerCancelled, scenario, rootRet, panicked, ghost>>

\* Reducer loop, "case result := <-resultChan" (baseChan, subChan)
Take(p, c) ==
    /\ p \in DOMAIN frames
    /\ LET f == frames[p] IN
         /\ f.pc = "loop"
         /\ f.i < NumHandlers(f)
         /\ c \in DOMAIN f.chans
         /\ f.chans[c] # <<>>
         /\ frames' = [frames EXCEPT ![p] = StTake(f, c)]
    /\ UNCHANGED <<beyondCheck, callerCancelled, scenario, rootRet, panicked, ghost>>

\* Reducer loop, "case <-ctx.Done(): return nil, ctx.Err()"
TakeCtxDone(p) ==
    /\ p \in DOMAIN frames
    /\ LET f == frames[p] IN
         /\ f.pc = "loop"
         /\ f.i < NumHandlers(f)
         /\ CtxDone(p)
         /\ frames' = [frames EXCEPT ![p] = StCtxDone(f)]
    /\ UNCHANGED <<beyondCheck, callerCancelled, scenario, rootRet, panicked, ghost>>

\* Reducer, the loop has run len(handlers) times: the final return
LoopEnd(p) ==
    /\ p \in DOMAIN frames
    /\ LET f == frames[p] IN
         /\ f.pc = "loop"
         /\ f.i = NumHandlers(f)
         /\ frames' = [frames EXCEPT ![p] = StLoopEnd(f)]
    /\ UNCHANGED <<beyondCheck, callerCancelled, scenario, rootRet, panicked, ghost>>

\* Deferred function, "cancel()"
DeferCancel(p) ==
    /\ p \in DOMAIN frames
    /\ frames[p].pc = "cancel"
    /\ frames' = [frames EXCEPT ![p] = StCancel(frames[p])]
    /\ UNCHANGED <<beyondCheck, callerCancelled, scenario, rootRet, panicked, ghost>>

\* Deferred function, "drain()" ("wg.Wait()" in exclusion)
DeferDrain(p) ==
    /\ p \in DOMAIN frames
    /\ LET f == frames[p] IN
         /\ f.pc = "drain"
         /\ WaitDone(f)
         /\ frames' = [frames EXCEPT ![p] = StDrain(f)]
    /\ UNCHANGED <<beyondCheck, callerCancelled, scenario, rootRet, panicked, ghost>>

\* Deferred function, the channels are closed and the reducer returns
DeferClose(p) ==
    /\ p \in DOMAIN frames
    /\ frames[p].pc = "close"
    /\ frames' = [frames EXCEPT ![p] = StClose(frames[p])]
    /\ UNCHANGED <<beyondCheck, callerCancelled, scenario, rootRet, panicked, ghost>>

\* The caller's context is cancelled (a deadline, a client that went away)
\* while the reducer has not yet cancelled its child scope itself; after
\* that the caller's cancellation changes nothing the reducer can observe.
CancelCaller ==
    /\ ~callerCancelled
    /\ Root \in DOMAIN frames
    /\ ~frames[Root].cancelled
    /\ callerCancelled' = TRUE
    /\ UNCHANGED <<beyondCheck, frames, scenario, rootRet, panicked, ghost>>

----------------------------------------------------------------------------
(* Objects, users, tuples and the model. *)

Obj(type, id) == [type |-> type, id |-> id]
\* a user reference: an object (rel = "") or a userset object#rel
User(type, id) == [type |-> type, id |-> id, rel |-> ""]
Userset(type, id, rel) == [type |-> type, id |-> id, rel |-> rel]
Tuple(obj, rel, user) == [obj |-> obj, rel |-> rel, user |-> user]
NewRequest(obj, rel, user, depth) ==
    [obj |-> obj, rel |-> rel, user |-> user, depth |-> depth]

\* tuple.SplitObjectRelation, the object part of a user reference
UserObject(u) == Obj(u.type, u.id)

\* A rewrite (openfgapb.Userset), a tagged record.
Rewrite(tag, rel, tr, cr, kids) ==
    [tag |-> tag, rel |-> rel, tr |-> tr, cr |-> cr, kids |-> kids]
This == Rewrite("this", "", "", "", <<>>)
ComputedUserset(rel) == Rewrite("computed", rel, "", "", <<>>)
TupleToUserset(tr, cr) == Rewrite("ttu", "", tr, cr, <<>>)
Union(kids) == Rewrite("union", "", "", "", kids)
Intersection(kids) == Rewrite("intersection", "", "", "", kids)
Difference(base, subtract) == Rewrite("difference", "", "", "", <<base, subtract>>)

\* TypeSystem.GetRelation: the rewrite of the relation, or
\* ErrRelationUndefined
RelationDefined(type, rel) ==
    type \in DOMAIN model /\ rel \in DOMAIN model[type]
GetRelation(type, rel) == model[type][rel]

\* ReadUserTuple: the tuple with this object, relation and user is stored
ReadUserTuple(tk) ==
    \E j \in 1..Len(store) :
        store[j].obj = tk.obj /\ store[j].rel = tk.rel /\ store[j].user = tk.user

IsUsersetOf(t, obj, rel) == t.obj = obj /\ t.rel = rel /\ t.user.rel # ""
IsTupleOf(t, obj, rel) == t.obj = obj /\ t.rel = rel

\* ReadUsersetTuples: the tuples of object#relation whose user is a userset
ReadUsersetTuples(tk) ==
    SelectSeq(store, LAMBDA t : IsUsersetOf(t, tk.obj, tk.rel))

\* Read with a filter on object and relation
Read(obj, rel) == SelectSeq(store, LAMBDA t : IsTupleOf(t, obj, rel))

\* the handler ConcurrentChecker.dispatch returns for a request
DispatchHandler(req) == Handler("dispatch", "", req, "", "", "", <<>>)

\* a ComputedUserset sub-request that keeps the depth of its request
ComputedDepthKept(req) == req.depth

\* the depth of the sub-request of a ComputedUserset rewrite
ComputedDepth(req) == DepthMinusOne(req.depth)

\* checkRewrite and checkSetOperation: the handler of a rewrite for a
\* request
RECURSIVE CheckRewrite(_, _)
CheckRewrite(req, rw) ==
    CASE rw.tag = "this" -> Handler("direct", "", req, "", "", "", <<>>)
      [] rw.tag = "computed" ->
            DispatchHandler(NewRequest(req.obj, rw.rel, req.user, ComputedDepth(req)))
      [] rw.tag = "ttu" -> Handler("ttu", "", req, rw.tr, rw.cr, "", <<>>)
      [] rw.tag = "union" ->
            Handler("setop", "", req, "", "", "union",
                    [j \in 1..Len(rw.kids) |-> CheckRewrite(req, rw.kids[j])])
      [] rw.tag = "intersection" ->
            Handler("setop", "", req, "", "", "intersection",
                    [j \in 1..Len(rw.kids) |-> CheckRewrite(req, rw.kids[j])])
      [] rw.tag = "difference" ->
            Handler("setop", "", req, "", "", "exclusion",
                    <<CheckRewrite(req, rw.kids[1]), CheckRewrite(req, rw.kids[2])>>)

----------------------------------------------------------------------------
(* Running a handler. *)

\* What calling handler hd at position i gives: an outcome at once
\* (done), or a reducer call whose result the handler returns (frame).
\* passed, zero and work say what the call did: a DispatchCheck that passed
\* the depth guard, a DispatchCheck called with depth 0, a relation resolved
\* or a tuple read on behalf of a request of depth 0.
Immediate(o) ==
    [done |-> TRUE, out |-> o, frame |-> NoRet,
     passed |-> 0, zero |-> FALSE, work |-> FALSE]

Call(kind, k, handlers, req) ==
    [done |-> FALSE, out |-> NoRet, frame |-> NewFrame(kind, k, handlers, req),
     passed |-> 0, zero |-> FALSE, work |-> FALSE]

\* fn1 of checkDirect: ReadUserTuple, allowed iff the tuple is there
InvokeFn1(hd) ==
    [Immediate(IF ReadUserTuple(hd.req) THEN Allowed ELSE Denied)
        EXCEPT !.work = (hd.req.depth = 0)]

\* fn2 of checkDirect: one dispatch per userset tuple, at depth - 1, under
\* a union; denied when there is none
InvokeFn2(hd, k) ==
    LET ts == ReadUsersetTuples(hd.req)
        handlers == [j \in 1..Len(ts) |->
            DispatchHandler(NewRequest(UserObject(ts[j].user), ts[j].user.rel,
                                       hd.req.user, DepthMinusOne(hd.req.depth)))]
    IN  [(IF Len(handlers) > 0 THEN Call("union", k, handlers, hd.req)
                               ELSE Immediate(Denied))
            EXCEPT !.work = (hd.req.depth = 0)]

\* the handler checkDirect returns: union(ctx, limit, fn1, fn2)
InvokeDirect(hd, k) ==
    Call("union", k, <<Handler("fn1", "", hd.req, "", "", "", <<>>),
                       Handler("fn2", "", hd.req, "", "", "", <<>>)>>, hd.req)

\* the handler checkTTU returns: one dispatch of U#computedRelation per
\* tuple object#tuplesetRelation@U, at depth - 1, under a union; denied when
\* there is none
InvokeTTU(hd, k) ==
    LET ts == Read(hd.req.obj, hd.tr)
        handlers == [j \in 1..Len(ts) |->
            DispatchHandler(NewRequest(UserObject(ts[j].user), hd.cr,
                                       hd.req.user, DepthMinusOne(hd.req.depth)))]
    IN  [(IF Len(handlers) > 0 THEN Call("union", k, handlers, hd.req)
                               ELSE Immediate(Denied))
            EXCEPT !.work = (hd.req.depth = 0)]

\* the handler checkSetOperation returns: reducer(ctx, limit, handlers...)
InvokeSetOp(hd, k) == Call(hd.red, k, hd.kids, hd.req)

\* a DispatchCheck without its depth guard
DepthExceededNever(req) == FALSE

\* DispatchCheck, "if req.GetResolutionMetadata().Depth == 0"
DepthExceeded(req) == req.depth = 0

\* DispatchCheck up to its call of union: the depth guard, the relation
\* looked up in the type system, the handler of its rewrite
InvokeDispatch(hd, k) ==
    IF DepthExceeded(hd.req)
    THEN [Immediate(Outcome("nil", ErrDepth)) EXCEPT !.zero = (hd.req.depth = 0)]
    ELSE IF ~RelationDefined(hd.req.obj.type, hd.req.rel)
    THEN [Immediate(Outcome("nil", ErrUndefined))
             EXCEPT !.passed = 1, !.work = (hd.req.depth = 0)]
    ELSE [Call("union", k,
               <<CheckRewrite(hd.req, GetRelation(hd.req.obj.type, hd.req.rel))>>,
               hd.req)
             EXCEPT !.passed = 1, !.work = (hd.req.depth = 0)]

Invoke(hd, i, k) ==
    CASE hd.h = "abs" -> Immediate(AbsOutcome(hd.nat, i))
      [] hd.h = "fn1" -> InvokeFn1(hd)
      [] hd.h = "fn2" -> InvokeFn2(hd, k)
      [] hd.h = "direct" -> InvokeDirect(hd, k)
      [] hd.h = "ttu" -> InvokeTTU(hd, k)
      [] hd.h = "setop" -> InvokeSetOp(hd, k)
      [] hd.h = "dispatch" -> InvokeDispatch(hd, k)

\* What a handler makes of the result of the reducer it called.  The
\* handler of dispatch and DispatchCheck: (nil, err) on an error, else a
\* response with the same Allowed.  The others return it as it is.
Convert(hd, ret) ==
    IF hd.h = "dispatch"
    THEN IF ret.err # "nil" THEN Outcome("nil", ret.err)
         ELSE IF GetAllowed(ret) THEN Allowed ELSE Denied
    ELSE ret

\* The handler obtains an iterator from the datastore: fn2 from
\* ReadUsersetTuples, the handler of checkTTU from Read.
OpensIterator(hd) == hd.h \in {"fn2", "ttu"}

\* The handler stops the iterator it opened before it returns: checkTTU has
\* "defer iter.Stop()", fn2 has no call of Stop on any path.
StopsIterator(hd) == hd.h = "ttu"

\* the handler returns with its iterator still open
LeavesOpen(hd) == OpensIterator(hd) /\ ~StopsIterator(hd)

\* A handler whose context is cancelled returns: a read of the datastore
\* fails with the context's error.
ObservesCtx(hd) == hd.h \in {"abs", "fn1", "fn2", "ttu"}

CancelledOutcome == Outcome("denied", ErrCancelled)

\* Worker: "resp, err := fn(ctx)", a handler that calls no reducer is
\* called and returns
RunHandler(p, i) ==
    /\ p \in DOMAIN frames
    /\ LET f == frames[p] IN
         /\ i \in 1..NumHandlers(f)
         /\ f.w[i] = "running"
         /\ LET r == Invoke(f.handlers[i], i, f.K) IN
              /\ r.done
              /\ frames' = [frames EXCEPT ![p] = StResult(f, i, r.out)]
              /\ errSeen' = (errSeen \/ r.out.err # "nil")
    /\ UNCHANGED <<beyondCheck, callerCancelled, scenario, rootRet, panicked,
                   guards, zeroHit, zeroWork, iterLeaked>>

\* Worker: the handler is called with a cancelled context and returns the
\* context's error
RunCancelled(p, i) ==
    /\ p \in DOMAIN frames
    /\ LET f == frames[p] IN
         /\ i \in 1..NumHandlers(f)
         /\ f.w[i] = "running"
         /\ ObservesCtx(f.handlers[i])
         /\ CctxDone(p)
         /\ frames' = [frames EXCEPT ![p] = StResult(f, i, CancelledOutcome)]
    /\ UNCHANGED <<beyondCheck, callerCancelled, scenario, rootRet, panicked, ghost>>

----------------------------------------------------------------------------
(* The state of ListUsers before it is called. *)

\* an error is the set of the errors joined in it; nil is the empty set
NoError == {}

\* what ListUsers returned: nothing yet, (response, nil) or (nil, err)
NoListRet == [returned |-> FALSE, resp |-> FALSE, objects |-> <<>>, err |-> NoError]

ListRequest(obj, rel, ttype, trel) ==
    [obj |-> obj, rel |-> rel, ttype |-> ttype, trel |-> trel]

NoListRequest == ListRequest(Obj("", ""), "", "", "")

\* no ListUsers is under way
NoListing ==
    /\ typesystemInCtx = TRUE
    /\ dsFaulty = FALSE
    /\ resolveNodeBreadthLimit = 1
    /\ luReq = NoListRequest
    /\ tasks = <<>>
    /\ producer = "none"
    /\ foundObjectsCh = <<>>
    /\ foundClosed = FALSE
    /\ collector = "none"
    /\ foundObjects = <<>>
    /\ done = FALSE
    /\ expandErrCh = <<>>
    /\ luRet = NoListRet
    /\ luPanicked = FALSE
    /\ levels = {}
    /\ sent = {}
    /\ failed = FALSE
    /\ luStreamed = FALSE
    /\ srvObjects = <<>>
    /\ foundObject = <<>>

----------------------------------------------------------------------------
(* The state of the hedged datastore before a read is called. *)

\* an invocation of hedgedfunc that has not been started
NoCall == [pc |-> "none", innerIter |-> "none", innerErr |-> FALSE, slowest |-> FALSE]

\* a channel that has not been made
NoChan == [made |-> FALSE, buf |-> 0, closed |-> FALSE, twice |-> FALSE]

NoHedgeRet == [returned |-> FALSE, iter |-> 0, err |-> FALSE]

\* Quantile has not been called
NoQuantile == 0

\* no approximator is constructed
NoApproximator ==
    /\ maxSamples = 0
    /\ tdigests = <<>>
    /\ quantileSec = NoQuantile

\* no hedged read is under way
NoHedgedRead ==
    /\ hedgeKind = ""
    /\ hedgerPc = "none"
    /\ timer = "none"
    /\ hctxCancelled = FALSE
    /\ calls = <<NoCall, NoCall>>
    /\ once = FALSE
    /\ hIter = 0
    /\ hErr = FALSE
    /\ resolved = <<NoChan, NoChan>>
    /\ duration = 0
    /\ hedgeRet = NoHedgeRet
    /\ resolvedAtFire = FALSE
    /\ completions = <<>>
    /\ readOrder = <<>>

NoHedging == NoApproximator /\ NoHedgedRead

\* Materialize has not been called
NoOut == [returned |-> FALSE, statement |-> <<>>, err |-> FALSE]
NoViewing ==
    /\ mPairs = <<>>
    /\ mDialect = ""
    /\ mOut = NoOut
    /\ view = <<>>
    /\ viewPc = "none"

\* ExpandedReadChanges has not been called
NoIndexing ==
    /\ changelog = <<>>
    /\ pageSize = 0
    /\ checkAllowed = {}
    /\ clientFaulty = FALSE
    /\ failures = 0
    /\ contToken = 0
    /\ changes = <<>>
    /\ toCheck = <<>>
    /\ indexerPc = "none"
    /\ srvSent = <<>>

----------------------------------------------------------------------------
(* One call of a reducer with handlers that each return a fixed outcome. *)

AbsNats == {"allowed", "denied", "error"}

HandlerLists ==
    UNION {[1..n -> {AbsHandler(nat) : nat \in AbsNats}] : n \in 0..MaxHandlers}

Init ==
    /\ \E kind \in Kinds, k \in 1..MaxK, hs \in HandlerLists :
          /\ kind = "exclusion" => Len(hs) = 2
          /\ frames = (Root :> NewFrame(kind, k, hs, NoReq))
          /\ rootK = k
    /\ callerCancelled = FALSE
    /\ model = <<>>
    /\ related = <<>>
    /\ store = <<>>
    /\ rootReq = NoReq
    /\ rootRet = NoRet
    /\ panicked = FALSE
    /\ guards = 0
    /\ zeroHit = FALSE
    /\ zeroWork = FALSE
    /\ errSeen = FALSE
    /\ iterLeaked = FALSE
    /\ NoListing
    /\ NoHedging
    /\ NoViewing
    /\ NoIndexing

Next ==
    \/ OrchStart(Root)
    \/ OrchSkip(Root)
    \/ OrchDone(Root)
    \/ ExclLaunch(Root)
    \/ \E i \in 1..NumHandlers(frames[Root]) : RunHandler(Root, i)
    \/ \E i \in 1..NumHandlers(frames[Root]) : RunCancelled(Root, i)
    \/ \E i \in 1..NumHandlers(frames[Root]) : Publish(Root, i)
    \/ \E i \in 1..NumHandlers(frames[Root]) : Release(Root, i)
    \/ \E i \in 1..NumHandlers(frames[Root]) : WorkerDone(Root, i)
    \/ \E c \in 1..2 : Take(Root, c)
    \/ TakeCtxDone(Root)
    \/ LoopEnd(Root)
    \/ DeferCancel(Root)
    \/ DeferDrain(Root)
    \/ DeferClose(Root)
    \/ CancelCaller

Spec == Init /\ [][Next]_vars

----------------------------------------------------------------------------
(* Check: DispatchCheck on a request, a model and a store.  The reducer    *)
(* calls of a Check are followed with the statements of a goroutine that   *)
(* touch only the call's own limiter, WaitGroup and channel buffers taken  *)
(* together with the statement before them: the orchestrator's wg.Done     *)
(* with its last select, a worker's publish, release and wg.Done with the  *)
(* return of its handler, the reducer's cancel() with its return           *)
(* statement, and what follows wg.Wait() up to the caller's next blocking  *)
(* statement with wg.Wait().                                               *)

\* worker i of f whose handler returned o: publish, release, wg.Done
WorkerTail(f, i, o) ==
    StWorkerDone(StRelease(StPublish(StResult(f, i, o), i), i), i)

\* the orchestrator after a select: wg.Done() once the loop is over
OrchTail(f) == IF f.orch = NumHandlers(f) + 1 THEN StOrchDone(f) ELSE f

\* the reducer after a take: the return after the loop, and cancel()
TakeTail(f) ==
    IF f.pc = "cancel" THEN StCancel(f)
    ELSE IF f.i = NumHandlers(f) THEN StCancel(StLoopEnd(f))
    ELSE f

\* a reducer call as the Check follows it from its first blocking statement
Entered(f) == TakeTail(OrchTail(f))

\* the frames with the one at path c removed
Without(c) == [q \in DOMAIN frames \ {c} |-> frames[q]]

\* the path of the reducer call whose worker called the one at p
Parent(p) == SubSeq(p, 1, Len(p) - 1)

CheckOrchStart(p) ==
    /\ p \in DOMAIN frames
    /\ LET f == frames[p] IN
         /\ f.orch <= NumHandlers(f)
         /\ CanAcquire(f)
         /\ frames' = [frames EXCEPT ![p] =
                          OrchTail(StOrchNext(StAcquire(f, f.orch)))]
    /\ UNCHANGED <<beyondCheck, callerCancelled, scenario, rootRet, panicked, ghost>>

CheckOrchSkip(p) ==
    /\ p \in DOMAIN frames
    /\ LET f == frames[p] IN
         /\ f.orch <= NumHandlers(f)
         /\ CctxDone(p)
         /\ frames' = [frames EXCEPT ![p] = OrchTail(StOrchNext(f))]
    /\ UNCHANGED <<beyondCheck, callerCancelled, scenario, rootRet, panicked, ghost>>

\* Worker: the handler is called; it returns at once, or calls a reducer
CheckRun(p, i) ==
    /\ p \in DOMAIN frames
    /\ LET f == frames[p] IN
         /\ i \in 1..NumHandlers(f)
         /\ f.w[i] = "running"
         /\ LET r == Invoke(f.handlers[i], i, f.K) IN
              /\ IF r.done
                 THEN frames' = [frames EXCEPT ![p] = WorkerTail(f, i, r.out)]
                 ELSE frames' = (Append(p, i) :> Entered(r.frame)) @@
                                [frames EXCEPT ![p].w[i] = "waiting"]
              /\ guards' = guards + r.passed
              /\ zeroHit' = (zeroHit \/ r.zero)
              /\ zeroWork' = (zeroWork \/ r.work)
              /\ errSeen' = (errSeen \/ (r.done /\ r.out.err # "nil"))
              /\ iterLeaked' = (iterLeaked \/ (r.done /\ LeavesOpen(f.handlers[i])))
    /\ UNCHANGED <<beyondCheck, callerCancelled, scenario, rootRet, panicked>>

\* Worker: the handler is called with a cancelled context and returns the
\* context's error, from its first read of the datastore or, when that
\* read had opened an iterator, from iter.Next
CheckRunCancelled(p, i, opened) ==
    /\ p \in DOMAIN frames
    /\ LET f == frames[p] IN
         /\ i \in 1..NumHandlers(f)
         /\ f.w[i] = "running"
         /\ ObservesCtx(f.handlers[i])
         /\ opened => OpensIterator(f.handlers[i])
         /\ CctxDone(p)
         /\ frames' = [frames EXCEPT ![p] = WorkerTail(f, i, CancelledOutcome)]
         /\ iterLeaked' = (iterLeaked \/ (opened /\ LeavesOpen(f.handlers[i])))
    /\ UNCHANGED <<beyondCheck, callerCancelled, scenario, rootRet, panicked,
                   guards, zeroHit, zeroWork, errSeen>>

CheckTake(p, c) ==
    /\ p \in DOMAIN frames
    /\ LET f == frames[p] IN
         /\ f.pc = "loop"
         /\ f.i < NumHandlers(f)
         /\ c \in DOMAIN f.chans
         /\ f.chans[c] # <<>>
         /\ frames' = [frames EXCEPT ![p] = TakeTail(StTake(f, c))]
    /\ UNCHANGED <<beyondCheck, callerCancelled, scenario, rootRet, panicked, ghost>>

CheckTakeCtxDone(p) ==
    /\ p \in DOMAIN frames
    /\ LET f == frames[p] IN
         /\ f.pc = "loop"
         /\ f.i < NumHandlers(f)
         /\ CtxDone(p)
         /\ frames' = [frames EXCEPT ![p] = StCancel(StCtxDone(f))]
    /\ UNCHANGED <<beyondCheck, callerCancelled, scenario, rootRet, panicked, ghost>>

\* wg.Wait() returns, the channels are closed, the reducer returns to the
\* handler that called it, and the worker of that handler publishes what
\* the handler makes of the result
CheckReturn(p) ==
    /\ p \in DOMAIN frames
    /\ p # Root
    /\ LET f == frames[p]
           q == Parent(p)
           i == p[Len(p)]
       IN  /\ f.pc = "drain"
           /\ WaitDone(f)
           /\ frames' = [x \in DOMAIN frames \ {p} |->
                 IF x = q
                 THEN WorkerTail(frames[q], i,
                                 Convert(frames[q].handlers[i], StClose(StDrain(f)).ret))
                 ELSE frames[x]]
           /\ iterLeaked' = (iterLeaked \/ LeavesOpen(frames[q].handlers[i]))
    /\ UNCHANGED <<beyondCheck, callerCancelled, scenario, rootRet, panicked,
                   guards, zeroHit, zeroWork, errSeen>>

\* The caller of the checker calls DispatchCheck on the root request.
RootDispatch ==
    /\ rootRet = NoRet
    /\ DOMAIN frames = {}
    /\ LET r == Invoke(DispatchHandler(rootReq), 1, rootK) IN
         /\ IF r.done
            THEN /\ rootRet' = r.out
                 /\ frames' = frames
            ELSE /\ rootRet' = rootRet
                 /\ frames' = (Root :> Entered(r.frame))
         /\ guards' = guards + r.passed
         /\ zeroHit' = (zeroHit \/ r.zero)
         /\ zeroWork' = (zeroWork \/ r.work)
         /\ errSeen' = (errSeen \/ (r.done /\ r.out.err # "nil"))
    /\ UNCHANGED <<beyondCheck, callerCancelled, scenario, panicked, iterLeaked>>

\* The union of the root DispatchCheck returns, and DispatchCheck returns
\* what it makes of the result.
RootReturn ==
    /\ rootRet = NoRet
    /\ Root \in DOMAIN frames
    /\ frames[Root].pc = "drain"
    /\ WaitDone(frames[Root])
    /\ rootRet' = Convert(DispatchHandler(rootReq), StClose(StDrain(frames[Root])).ret)
    /\ frames' = Without(Root)
    /\ UNCHANGED <<beyondCheck, callerCancelled, scenario, panicked, ghost>>

\* The models.  A type maps each of its relations to its rewrite.
NoRelations == [r \in {} |-> This]

\* document.viewer: [user]; document.can_read = viewer;
\* document.editor: [user] or viewer
ModelDocument ==
    [document |-> [viewer |-> This, can_read |-> ComputedUserset("viewer"),
                   editor |-> Union(<<This, ComputedUserset("viewer")>>)],
     user |-> NoRelations]

\* group.member: [user, group#member]
ModelGroup ==
    [group |-> [member |-> This], user |-> NoRelations]

\* document.parent: [folder, org]; document.viewer = viewer from parent;
\* folder.viewer: [user]; org.admin: [user]
ModelParent ==
    [document |-> [parent |-> This, viewer |-> TupleToUserset("parent", "viewer")],
     folder |-> [viewer |-> This],
     org |-> [admin |-> This],
     user |-> NoRelations]

\* team.ambassador = member but not limited; team.seller = owner and approved
ModelTeam ==
    [team |-> [member |-> This, limited |-> This, owner |-> This, approved |-> This,
               ambassador |-> Difference(ComputedUserset("member"),
                                         ComputedUserset("limited")),
               seller |-> Intersection(<<ComputedUserset("owner"),
                                         ComputedUserset("approved")>>)],
     user |-> NoRelations]

\* document.editor: [user, document#viewer];
\* document.viewer: [user, document#editor];
\* document.loop = loop; document.reader = loop or viewer;
\* document.vetted = editor and loop
ModelCycle ==
    [document |-> [editor |-> This, viewer |-> This,
                   loop |-> ComputedUserset("loop"),
                   reader |-> Union(<<ComputedUserset("loop"),
                                      ComputedUserset("viewer")>>),
                   vetted |-> Intersection(<<ComputedUserset("editor"),
                                             ComputedUserset("loop")>>)],
     user |-> NoRelations]

\* A directly related user type: a type (rel = "") or a userset type#rel.
Ref(type, rel) == [type |-> type, rel |-> rel]
NoRefs == [r \in {} |-> {}]

RelatedDocument ==
    [document |-> [viewer |-> {Ref("user", "")}, can_read |-> {},
                   editor |-> {Ref("user", "")}],
     user |-> NoRefs]

RelatedGroup ==
    [group |-> [member |-> {Ref("user", ""), Ref("group", "member")}],
     user |-> NoRefs]

RelatedParent ==
    [document |-> [parent |-> {Ref("folder", ""), Ref("org", "")}, viewer |-> {}],
     folder |-> [viewer |-> {Ref("user", "")}],
     org |-> [admin |-> {Ref("user", "")}],
     user |-> NoRefs]

RelatedTeam ==
    [team |-> [member |-> {Ref("user", "")}, limited |-> {Ref("user", "")},
               owner |-> {Ref("user", "")}, approved |-> {Ref("user", "")},
               ambassador |-> {}, seller |-> {}],
     user |-> NoRefs]

RelatedCycle ==
    [document |-> [editor |-> {Ref("user", ""), Ref("document", "viewer")},
                   viewer |-> {Ref("user", ""), Ref("document", "editor")},
                   loop |-> {}, reader |-> {}, vetted |-> {}],
     user |-> NoRefs]

Doc1 == Obj("document", "1")
Doc2 == Obj("document", "2")
Jon == User("user", "jon")
Maria == User("user", "maria")

\* The scenarios: a model, the tuples that may be stored (in insertion
\* order) and the checks asked.
Scenarios ==
    { [model |-> ModelDocument, related |-> RelatedDocument,
       tuples |-> <<Tuple(Doc1, "viewer", Jon)>>,
       objs |-> {Doc1}, rels |-> {"viewer", "can_read", "editor"},
       users |-> {Jon, Maria}],
      [model |-> ModelGroup, related |-> RelatedGroup,
       tuples |-> <<Tuple(Obj("group", "eng"), "member", Userset("group", "fga", "member")),
                    Tuple(Obj("group", "fga"), "member", User("user", "andres")),
                    Tuple(Obj("group", "fga"), "member", Userset("group", "eng", "member"))>>,
       objs |-> {Obj("group", "eng")}, rels |-> {"member"},
       users |-> {User("user", "andres")}],
      [model |-> ModelParent, related |-> RelatedParent,
       tuples |-> <<Tuple(Doc1, "parent", User("org", "a")),
                    Tuple(Doc1, "parent", User("folder", "x")),
                    Tuple(Obj("folder", "x"), "viewer", Maria)>>,
       objs |-> {Doc1}, rels |-> {"viewer"}, users |-> {Maria}],
      [model |-> ModelTeam, related |-> RelatedTeam,
       tuples |-> <<Tuple(Obj("team", "jazz"), "member", User("user", "jill")),
                    Tuple(Obj("team", "jazz"), "limited", User("user", "jill")),
                    Tuple(Obj("team", "jazz"), "member", User("user", "larry"))>>,
       objs |-> {Obj("team", "jazz")}, rels |-> {"ambassador"},
       users |-> {User("user", "jill"), User("user", "larry")}],
      [model |-> ModelTeam, related |-> RelatedTeam,
       tuples |-> <<Tuple(Obj("team", "jazz"), "owner", User("user", "larry")),
                    Tuple(Obj("team", "jazz"), "approved", User("user", "larry")),
                    Tuple(Obj("team", "jazz"), "owner", User("user", "tim"))>>,
       objs |-> {Obj("team", "jazz")}, rels |-> {"seller"},
       users |-> {User("user", "larry"), User("user", "tim")}],
      [model |-> ModelCycle, related |-> RelatedCycle,
       tuples |-> <<Tuple(Doc1, "viewer", Userset("document", "1", "editor")),
                    Tuple(Doc1, "editor", Userset("document", "1", "viewer")),
                    Tuple(Doc1, "editor", Jon)>>,
       objs |-> {Doc1}, rels |-> {"viewer", "loop", "reader", "vetted"},
       users |-> {Jon}],
      \* document:1#viewer@document:2#viewer is not a [user] tuple
      [model |-> ModelDocument, related |-> RelatedDocument,
       tuples |-> <<Tuple(Doc1, "viewer", Userset("document", "2", "viewer")),
                    Tuple(Doc2, "viewer", Maria)>>,
       objs |-> {Doc1}, rels |-> {"viewer"}, users |-> {Maria}] }

\* the sub-sequences of a sequence: the stores that hold some of the tuples
SubSeqs(sq) ==
    { SelectSeq([j \in 1..Len(sq) |-> [t |-> sq[j], j |-> j]],
                LAMBDA e : e.j \in keep) : keep \in SUBSET (1..Len(sq)) }
Stores(sq) == { [j \in 1..Len(es) |-> es[j].t] : es \in SubSeqs(sq) }

InitCheck ==
    /\ \E sc \in Scenarios :
          /\ model = sc.model
          /\ related = sc.related
          /\ store \in Stores(sc.tuples)
          /\ \E o \in sc.objs, r \in sc.rels, u \in sc.users, d \in 0..MaxDepth :
                rootReq = NewRequest(o, r, u, d)
    /\ rootK \in 1..MaxK
    /\ frames = <<>>
    /\ callerCancelled = FALSE
    /\ rootRet = NoRet
    /\ panicked = FALSE
    /\ guards = 0
    /\ zeroHit = FALSE
    /\ zeroWork = FALSE
    /\ errSeen = FALSE
    /\ iterLeaked = FALSE
    /\ NoListing
    /\ NoHedging
    /\ NoViewing
    /\ NoIndexing

NextCheck ==
    \/ RootDispatch
    \/ RootReturn
    \/ \E p \in DOMAIN frames : CheckOrchStart(p)
    \/ \E p \in DOMAIN frames : CheckOrchSkip(p)
    \/ \E p \in DOMAIN frames : ExclLaunch(p)
    \/ \E p \in DOMAIN frames : \E i \in 1..NumHandlers(frames[p]) : CheckRun(p, i)
    \/ \E p \in DOMAIN frames : \E i \in 1..NumHandlers(frames[p]) :
          \E opened \in BOOLEAN : CheckRunCancelled(p, i, opened)
    \/ \E p \in DOMAIN frames : \E c \in 1..2 : CheckTake(p, c)
    \/ \E p \in DOMAIN frames : CheckTakeCtxDone(p)
    \/ \E p \in DOMAIN frames : CheckReturn(p)

SpecCheck == InitCheck /\ [][NextCheck]_vars

----------------------------------------------------------------------------
(* Properties of one reducer call (specification Spec). *)

R == frames[Root]
N == NumHandlers(R)

\* the reducer has executed its return statement
Returning(f) == f.pc \in {"cancel", "drain", "close", "returned"}

\* every handler returns allowed or denied, none fails
AllClean == \A j \in 1..N : R.handlers[j].nat \in {"allowed", "denied"}
SomeAllowed == \E j \in 1..N : R.handlers[j].nat = "allowed"
AllAllowed == \A j \in 1..N : R.handlers[j].nat = "allowed"

\* the workers of f that hold a slot of the limiter
Holding(f) == {j \in 1..NumHandlers(f) : f.w[j] \in {"running", "publish", "release"}}
\* the workers of f whose handler is executing
Executing(f) == {j \in 1..NumHandlers(f) : f.w[j] \in {"running", "waiting"}}

\* C1: with handlers that do not fail and a caller that does not cancel,
\* union returns allowed if and only if some handler returns allowed, and
\* denied otherwise (so denied when there is no handler).
C1_UnionAllowsIffAny ==
    (R.kind = "union" /\ Returning(R) /\ ~callerCancelled /\ AllClean)
        => /\ R.ret = (IF SomeAllowed THEN Allowed ELSE Denied)

\* union returned allowed on the first outcome it took while the other
\* handler had not returned
C1_Witness ==
    /\ R.kind = "union" /\ R.pc = "returned" /\ ~callerCancelled /\ AllClean
    /\ N = 2 /\ R.K = 2 /\ R.ret = Allowed
    /\ R.handlers[1].nat = "denied"
    /\ Len(R.taken) = 1

\* C2: with handlers that do not fail and a caller that does not cancel,
\* intersection returns allowed if and only if every handler returns allowed
\* (so allowed when there is no handler), and a denied outcome it takes is
\* the last one it takes: it returns denied at once.
C2_IntersectionAllowsIffAll ==
    (R.kind = "intersection" /\ ~callerCancelled /\ AllClean)
        => /\ Returning(R) => R.ret = (IF AllAllowed THEN Allowed ELSE Denied)
           /\ \A j \in 1..Len(R.taken) :
                 R.taken[j].o = Denied
                    => j = Len(R.taken) /\ Returning(R) /\ R.ret = Denied

\* intersection returned denied after one outcome, the other handler still
\* executing
C2_Witness ==
    /\ R.kind = "intersection" /\ R.pc = "cancel" /\ ~callerCancelled /\ AllClean
    /\ N = 2 /\ R.ret = Denied /\ Len(R.taken) = 1
    /\ \E j \in 1..N : R.w[j] = "running"

\* C3: with a base and a sub handler that do not fail and a caller that
\* does not cancel, for every limit (1 included) exclusion returns allowed
\* if and only if base returns allowed and sub returns denied, and a denied
\* base outcome or an allowed sub outcome it takes is the last one it takes:
\* it returns denied without the other outcome.
C3_ExclusionAllowsIffBaseNotSub ==
    (R.kind = "exclusion" /\ ~callerCancelled /\ AllClean)
        => /\ Returning(R) =>
                 R.ret = (IF R.handlers[1].nat = "allowed" /\ R.handlers[2].nat = "denied"
                          THEN Allowed ELSE Denied)
           /\ \A j \in 1..Len(R.taken) :
                 (\/ R.taken[j].src = 1 /\ R.taken[j].o = Denied
                  \/ R.taken[j].src = 2 /\ R.taken[j].o = Allowed)
                    => j = Len(R.taken) /\ Returning(R) /\ R.ret = Denied

\* exclusion with limit 1 returned denied on the allowed sub outcome alone,
\* the base outcome still in its channel
C3_Witness ==
    /\ R.kind = "exclusion" /\ R.K = 1 /\ R.pc = "returned" /\ ~callerCancelled
    /\ AllClean /\ R.ret = Denied
    /\ R.taken = <<[src |-> 2, o |-> Allowed]>>
    /\ R.chans[1] # <<>>

\* C7: an outcome with an error that a reducer takes is the last outcome it
\* takes; the reducer returns that error with a response whose allowed flag
\* is false, and has cancelled its child scope when it has returned.
C7_ErrorShortCircuits ==
    \A j \in 1..Len(R.taken) :
        R.taken[j].o.err # "nil"
           => /\ j = Len(R.taken)
              /\ Returning(R)
              /\ R.ret = Outcome("denied", R.taken[j].o.err)
              /\ R.pc \in {"drain", "close", "returned"} => R.cancelled

\* a reducer returned the error of its second handler, taken after an
\* outcome without error, not the error of its caller's context
C7_Witness ==
    /\ R.pc = "returned" /\ ~callerCancelled
    /\ Len(R.taken) = 2
    /\ R.taken[2].o.err = AbsErrs[2]
    /\ R.ret = Outcome("denied", AbsErrs[2])
    /\ R.cancelled

\* C8: when a reducer has returned, its orchestrator and every worker it
\* started have exited; no worker sends on a closed channel, and a worker
\* about to publish always finds room in its channel.
C8_NoLeak ==
    /\ R.pc = "returned" =>
          /\ R.orch = N + 2
          /\ \A j \in 1..N : R.w[j] \in {"idle", "exited"}
          /\ R.wg = 0
    /\ ~panicked
    /\ \A j \in 1..N :
          R.w[j] = "publish" /\ ~R.chClosed
             => Len(R.chans[ChanOf(R.kind, j)]) < ChanCap(R.kind, N)

\* a reducer returned on a short circuit after the caller cancelled, with
\* an outcome left in its channel that it never took
C8_Witness ==
    /\ R.pc = "returned" /\ callerCancelled
    /\ Len(R.taken) < N
    /\ \E c \in DOMAIN R.chans : R.chans[c] # <<>>
    /\ \A j \in 1..N : R.w[j] = "exited"

\* C9: at most K handlers of a reducer call are executing at any instant; a
\* worker holds a slot of the limiter from before its handler starts until
\* after it has published the outcome.
C9_AtMostKExecuting ==
    /\ Cardinality(Executing(R)) <= R.K
    /\ R.limiter = Cardinality(Holding(R))
    /\ R.limiter <= R.K

\* limit 1: the second handler waits for the slot the first worker holds
C9_Witness ==
    /\ R.K = 1 /\ N = 2
    /\ R.w[1] = "publish" /\ R.w[2] = "idle"
    /\ ~CctxDone(Root)
    /\ R.limiter = 1

----------------------------------------------------------------------------
(* Properties of Check (specification SpecCheck). *)

\* The set a relation denotes, by the rewrite algebra: This is a direct
\* tuple or membership in a userset named by a tuple, ComputedUserset(r)
\* the set of object#r, TupleToUserset(t, c) the union of the sets U#c over
\* the tuples object#t@U.  A relation that is not defined denotes the empty
\* set; seen holds the object#relation pairs on the path, so that the
\* least solution is taken on a cycle.
RECURSIVE Member(_, _, _, _)
RECURSIVE Denotes(_, _, _, _, _)
Denotes(obj, rel, rw, u, seen) ==
    CASE rw.tag = "this" ->
            \/ ReadUserTuple(NewRequest(obj, rel, u, 0))
            \/ \E j \in 1..Len(store) :
                  /\ IsUsersetOf(store[j], obj, rel)
                  /\ Member(UserObject(store[j].user), store[j].user.rel, u, seen)
      [] rw.tag = "computed" -> Member(obj, rw.rel, u, seen)
      [] rw.tag = "ttu" ->
            \E j \in 1..Len(store) :
                /\ IsTupleOf(store[j], obj, rw.tr)
                /\ Member(UserObject(store[j].user), rw.cr, u, seen)
      [] rw.tag = "union" ->
            \E j \in 1..Len(rw.kids) : Denotes(obj, rel, rw.kids[j], u, seen)
      [] rw.tag = "intersection" ->
            \A j \in 1..Len(rw.kids) : Denotes(obj, rel, rw.kids[j], u, seen)
      [] rw.tag = "difference" ->
            /\ Denotes(obj, rel, rw.kids[1], u, seen)
            /\ ~Denotes(obj, rel, rw.kids[2], u, seen)

Member(obj, rel, u, seen) ==
    IF <<obj, rel>> \in seen \/ ~RelationDefined(obj.type, rel) THEN FALSE
    ELSE Denotes(obj, rel, GetRelation(obj.type, rel), u, seen \cup {<<obj, rel>>})

\* the user of the root request belongs to the set of its relation
RootMember == Member(rootReq.obj, rootReq.rel, rootReq.user, {})

\* What a Check returns when every reducer runs its handlers one after the
\* other in their order and takes their outcomes in that order.
RECURSIVE SeqHandler(_)
RECURSIVE SeqReduce(_, _, _)
SeqHandler(hd) ==
    LET r == Invoke(hd, 1, 1)
    IN  IF r.done THEN r.out
        ELSE Convert(hd, SeqReduce(r.frame.kind, r.frame.handlers, 1))

SeqReduce(kind, hs, j) ==
    IF j > Len(hs) THEN LoopResult(kind)
    ELSE LET d == Decide(kind, j, SeqHandler(hs[j]))
         IN  IF d # NoRet THEN d ELSE SeqReduce(kind, hs, j + 1)

SeqCheck == SeqHandler(DispatchHandler(rootReq))

\* C4: a Check during which no dispatch reached depth 0 returns allowed if
\* and only if the user belongs to the set the relation denotes.
C4_CheckAgreesWithSets ==
    (rootRet # NoRet /\ ~zeroHit) => (rootRet = Allowed <=> RootMember)

\* C5: the outcome of a Check is a function of the model, the tuples and
\* the request: it is the outcome of the in-order evaluation, whatever the
\* concurrency limit and the scheduling.
C5_CheckIsDeterministic ==
    rootRet # NoRet => rootRet = SeqCheck

\* C6: a Check during which a handler returned an error returns an error:
\* neither allowed nor denied.
C6_FailureIsReported ==
    (rootRet # NoRet /\ errSeen) => rootRet.err # "nil"

\* C10: a DispatchCheck on a request of depth 0 fails with resolution depth
\* exceeded and neither resolves a relation nor reads a tuple; in a reducer
\* call made for a request of depth d, the dispatched sub-requests have
\* depth d - 1 with d >= 1 and the other handlers keep the request; a Check
\* of a relation that is a ComputedUserset of itself fails with resolution
\* depth exceeded after as many passed depth guards as its root depth.
C10_DepthLimit ==
    /\ ~zeroWork
    /\ (rootReq.depth = 0 /\ rootRet # NoRet)
          => rootRet = Outcome("nil", ErrDepth) /\ guards = 0
    /\ \A p \in DOMAIN frames : \A j \in 1..NumHandlers(frames[p]) :
          LET f == frames[p]
              hd == f.handlers[j]
          IN  IF hd.h = "dispatch"
              THEN f.req.depth >= 1 /\ hd.req.depth = f.req.depth - 1
              ELSE hd.req = f.req
    /\ (rootReq.rel = "loop" /\ rootRet # NoRet)
          => rootRet = Outcome("nil", ErrDepth) /\ guards = rootReq.depth

\* the Check of document:1#loop at the largest root depth failed at depth 0
\* after that many guards
C10_Witness ==
    /\ rootReq.rel = "loop" /\ rootReq.depth = MaxDepth
    /\ rootRet = Outcome("nil", ErrDepth)
    /\ guards = MaxDepth /\ zeroHit

\* Check under a scheduler that runs a goroutine that can take a step: the
\* Go runtime does not leave a runnable goroutine waiting forever.
SpecCheckLive == InitCheck /\ [][NextCheck]_vars /\ WF_vars(NextCheck)

\* C11: every Check eventually returns allowed, denied or an error, for
\* every scenario (the cyclic userset edges included), root depth and
\* limit; in particular no reducer call stays blocked on its limiter or on
\* its outcome channel.
C11_CheckTerminates == <>(rootRet # NoRet)

\* the Check of document:1#viewer over the editor/viewer cycle returned at
\* the largest root depth
C11_Witness ==
    /\ model = ModelCycle /\ Len(store) = 3
    /\ rootReq.rel = "viewer" /\ rootReq.depth = MaxDepth
    /\ rootRet # NoRet /\ guards = MaxDepth /\ zeroHit

\* the rewrite of the root request's relation is a TupleToUserset
RootIsTTU ==
    /\ RelationDefined(rootReq.obj.type, rootReq.rel)
    /\ GetRelation(rootReq.obj.type, rootReq.rel).tag = "ttu"

\* the tuples object#tuplesetRelation@U of the root request
RootTupleset == Read(rootReq.obj, GetRelation(rootReq.obj.type, rootReq.rel).tr)

\* the sub-request checkTTU dispatches for the j-th of these tuples
RootTTURequest(j) ==
    NewRequest(UserObject(RootTupleset[j].user),
               GetRelation(rootReq.obj.type, rootReq.rel).cr,
               rootReq.user, DepthMinusOne(rootReq.depth))

\* C12: a Check of depth d >= 1 on a relation with rewrite
\* TupleToUserset(tr, cr) returns allowed if and only if the Check
\* dispatched at depth d - 1 for one of the tuples object#tr@U is allowed;
\* without such a tuple it returns denied and dispatches nothing.
C12_TTUAllowsIffSomeParent ==
    (rootRet # NoRet /\ rootReq.depth >= 1 /\ RootIsTTU)
        => /\ rootRet = Allowed <=>
                 \E j \in 1..Len(RootTupleset) :
                     SeqHandler(DispatchHandler(RootTTURequest(j))) = Allowed
           /\ RootTupleset = <<>> => rootRet = Denied /\ guards = 1 /\ ~zeroHit

\* the reducer is blocked: at the select of its loop, or (exclusion) at
\* "limiter <- struct{}{}" with no free slot
Blocked(f) ==
    \/ f.pc = "loop" /\ f.i < NumHandlers(f)
    \/ f.pc = "launch" /\ ~CanAcquire(f)

\* no outcome is waiting in a channel of the reducer
NoOutcome(f) == \A c \in DOMAIN f.chans : f.chans[c] = <<>>

\* C13: when the caller's context is cancelled while a reducer is blocked
\* and no outcome is available, the reducer can return at once, with the
\* context's error and without an outcome of the handlers still running;
\* a reducer that returned the context's error has returned after all its
\* workers and its orchestrator exited.
C13_CancelledReducerReturns ==
    /\ (callerCancelled /\ Blocked(R) /\ NoOutcome(R)) => ENABLED TakeCtxDone(Root)
    /\ (Returning(R) /\ R.ret = CtxErrResult) => callerCancelled
    /\ (R.pc = "returned" /\ R.ret = CtxErrResult)
          => /\ R.orch = N + 2
             /\ \A j \in 1..N : R.w[j] \in {"idle", "exited"}

----------------------------------------------------------------------------
(* Iterators and invalid tuples. *)

\* C15: every iterator a handler of the checker obtains from Read or
\* ReadUsersetTuples is stopped before that handler returns: no handler ever
\* returns with the iterator it opened still open.
C15_IteratorsStopped == ~iterLeaked

\* validation.FilterInvalidTuples keeps a tuple when the shape of its user is
\* one of the directly related user types of its relation
Valid(t) ==
    /\ t.obj.type \in DOMAIN related
    /\ t.rel \in DOMAIN related[t.obj.type]
    /\ Ref(t.user.type, t.user.rel) \in related[t.obj.type][t.rel]

\* the store as a reader that filters invalid tuples shows it
ValidTuples == SelectSeq(store, Valid)

\* The set a relation denotes over the valid tuples only.
RECURSIVE ValidMember(_, _, _, _)
RECURSIVE ValidDenotes(_, _, _, _, _)
ValidDenotes(obj, rel, rw, u, seen) ==
    CASE rw.tag = "this" ->
            \E j \in 1..Len(ValidTuples) :
                /\ IsTupleOf(ValidTuples[j], obj, rel)
                /\ \/ ValidTuples[j].user = u
                   \/ /\ ValidTuples[j].user.rel # ""
                      /\ ValidMember(UserObject(ValidTuples[j].user),
                                     ValidTuples[j].user.rel, u, seen)
      [] rw.tag = "computed" -> ValidMember(obj, rw.rel, u, seen)
      [] rw.tag = "ttu" ->
            \E j \in 1..Len(ValidTuples) :
                /\ IsTupleOf(ValidTuples[j], obj, rw.tr)
                /\ ValidMember(UserObject(ValidTuples[j].user), rw.cr, u, seen)
      [] rw.tag = "union" ->
            \E j \in 1..Len(rw.kids) : ValidDenotes(obj, rel, rw.kids[j], u, seen)
      [] rw.tag = "intersection" ->
            \A j \in 1..Len(rw.kids) : ValidDenotes(obj, rel, rw.kids[j], u, seen)
      [] rw.tag = "difference" ->
            /\ ValidDenotes(obj, rel, rw.kids[1], u, seen)
            /\ ~ValidDenotes(obj, rel, rw.kids[2], u, seen)

ValidMember(obj, rel, u, seen) ==
    IF <<obj, rel>> \in seen \/ ~RelationDefined(obj.type, rel) THEN FALSE
    ELSE ValidDenotes(obj, rel, GetRelation(obj.type, rel), u,
                      seen \cup {<<obj, rel>>})

\* C16: a tuple whose user matches none of the directly related user types
\* of its relation never changes the result of a Check: a Check that returns
\* without an error allows exactly when the user belongs to the set the
\* relation denotes over the valid tuples of the store.
C16_InvalidTuplesIgnored ==
    (rootRet # NoRet /\ rootRet.err = "nil")
        => (rootRet = Allowed
              <=> ValidMember(rootReq.obj, rootReq.rel, rootReq.user, {}))

----------------------------------------------------------------------------
(* The concurrency of a whole Check. *)

RECURSIVE Pow(_, _)
Pow(b, e) == IF e = 0 THEN 1 ELSE b * Pow(b, e - 1)

\* the handlers of the whole Check that are running: started by a worker and
\* neither returned nor waiting for a reducer they called
RunningHandlers ==
    {pi \in UNION {{<<p, j>> : j \in 1..NumHandlers(frames[p])} : p \in DOMAIN frames} :
        frames[pi[1]].w[pi[2]] = "running"}

\* the number of reducer calls nested on the deepest path of the Check
Nesting ==
    IF DOMAIN frames = {} THEN 0
    ELSE 1 + (CHOOSE n \in {Len(p) : p \in DOMAIN frames} :
                 \A p \in DOMAIN frames : Len(p) <= n)

\* C17 as stated: for a Check with limit K and root depth D, at most K^D
\* handlers are running at any instant, all recursion levels and nested set
\* operations taken together.
C17_GlobalBoundKPowD ==
    Cardinality(RunningHandlers) <= Pow(rootK, rootReq.depth)

\* C17 amended: at most K^L handlers are running at any instant, L being
\* the number of reducer calls nested on the deepest path at that instant
\* (each reducer call has a limiter of its own, and one recursion level
\* nests several reducer calls).
C17_GlobalBoundKPowNesting ==
    Cardinality(RunningHandlers) <= Pow(rootK, Nesting)

\* limit 2, depth 1, [user] or viewer: fn1, fn2 and the dispatch of viewer
\* are running together, three handlers in three nested reducer calls
C17_Witness ==
    /\ rootK = 2 /\ rootReq.depth = 1
    /\ Cardinality(RunningHandlers) = 3
    /\ Nesting = 3

----------------------------------------------------------------------------
(* ListUsers and StreamedListUsers: the expansion of object#relation into  *)
(* the objects of the target user type.  A task is a goroutine that runs   *)
(* expand: the producer at the root path, below it the goroutines of the   *)
(* pools of expandDirect and expandTTU.  A task is followed from one       *)
(* blocking statement to the next: a send on foundObjectsCh, a Read of the *)
(* datastore, pool.Go, pool.Wait.                                          *)

MaxBreadth == 2
FoundCap == 1
MaxPath == 3         \* the tasks followed are at most MaxPath levels under the root

ErrTypesystem == {"typesystem not provided in context"}
ErrRelationUndefined == {"relation undefined"}
ErrRead == {"read failed"}
ErrCanceled == {"context canceled"}

\* a goroutine about to call expand on req
NewTask(req) ==
    [req |-> req, pc |-> "expand", mode |-> "", cr |-> "", tuples |-> <<>>,
     k |-> 1, poolCancelled |-> FALSE, err |-> NoError]

\* the tasks started by pool.Go of the expansion at p, and those of them
\* that have not returned
PoolTasks(p) == {q \in DOMAIN tasks : Len(q) = Len(p) + 1 /\ IsPrefix(p, q)}
PoolRunningNone(p) == {}

PoolRunning(p) == {q \in PoolTasks(p) : tasks[q].pc # "returned"}

\* the context of the task at p is cancelled: the pool of an enclosing
\* expansion has cancelled its context
TaskCtxDone(p) ==
    \E q \in DOMAIN tasks :
        Len(q) < Len(p) /\ IsPrefix(q, p) /\ tasks[q].poolCancelled

\* expand: the object of the request is of the target type and the relation
\* is the target relation
Emits(r) == r.obj.type = r.ttype /\ r.rel = r.trel

\* a direct user (no relation) that is emitted whatever its type
FoundOneAnyType(r, u) == TRUE

\* expandDirect: a direct user of the target type is emitted
FoundOne(r, u) == u.type = r.ttype

\* tuple.SplitObject of a user string: the type before the colon, the rest
\* (a relation included) as the id
SplitObject(u) ==
    IF u.rel = "" THEN Obj(u.type, u.id) ELSE Obj(u.type, <<u.id, u.rel>>)

\* the request of the task that pool.Go starts for a tuple with user u
SubRequest(t, u) ==
    IF t.mode = "direct"
    THEN ListRequest(UserObject(u), u.rel, t.req.ttype, t.req.trel)
    ELSE ListRequest(SplitObject(u), t.cr, t.req.ttype, t.req.trel)

\* expand after its emission: the type system is resolved, the relation
\* looked up and its rewrite switched on
Resolved(r) ==
    LET x == [kind |-> "", err |-> NoError, mode |-> "", rel |-> "", cr |-> "",
              req |-> r]
    IN  IF ~typesystemInCtx THEN [x EXCEPT !.kind = "error", !.err = ErrTypesystem]
        ELSE IF ~RelationDefined(r.obj.type, r.rel)
        THEN [x EXCEPT !.kind = "error", !.err = ErrRelationUndefined]
        ELSE LET rw == GetRelation(r.obj.type, r.rel) IN
             CASE rw.tag = "this" ->
                    [x EXCEPT !.kind = "read", !.mode = "direct", !.rel = r.rel]
               [] rw.tag = "computed" ->
                    [x EXCEPT !.kind = "computed",
                              !.req = ListRequest(r.obj, rw.rel, r.ttype, "")]
               [] rw.tag = "ttu" ->
                    [x EXCEPT !.kind = "read", !.mode = "ttu", !.rel = rw.tr,
                              !.cr = rw.cr]
               [] OTHER -> [x EXCEPT !.kind = "panic"]

\* the task at p returns e; a pool WithCancelOnError cancels its context
\* when one of its tasks returns an error
Returned(ts, p, e) ==
    LET ts1 == [ts EXCEPT ![p].pc = "returned", ![p].err = e]
    IN  IF p # Root /\ e # NoError
        THEN [ts1 EXCEPT ![Parent(p)].poolCancelled = TRUE]
        ELSE ts1

\* a pool whose Wait returns nil whatever its tasks returned
WaitErrorNone(p) == NoError

\* pool.Wait: the errors of the tasks of the pool, joined
WaitError(p) == UNION {tasks[q].err : q \in PoolTasks(p)}

checking == <<frames, callerCancelled, rootReq, rootK, rootRet, panicked, ghost>>
beyondList == <<checking, hedging, viewing, indexing>>
config == <<model, related, store, typesystemInCtx, dsFaulty,
            resolveNodeBreadthLimit, luReq, luStreamed>>
stream == <<srvObjects, foundObject>>

\* ListUsers up to its select: the channels are made, the collector and
\* the producer started
ListUsersCall ==
    /\ ~luStreamed
    /\ producer = "none"
    /\ tasks' = (Root :> NewTask(luReq))
    /\ producer' = "running"
    /\ collector' = "range"
    /\ UNCHANGED <<beyondList, config, stream, foundObjectsCh, foundClosed,
                   foundObjects, done, expandErrCh, luRet, luPanicked, levels, sent,
                   failed>>

\* StreamedListUsers up to its select: the channels are made, the
\* collector and the producer started
StreamedListUsersCall ==
    /\ luStreamed
    /\ producer = "none"
    /\ tasks' = (Root :> NewTask(luReq))
    /\ producer' = "running"
    /\ collector' = "range"
    /\ UNCHANGED <<beyondList, config, stream, foundObjectsCh, foundClosed,
                   foundObjects, done, expandErrCh, luRet, luPanicked, levels, sent,
                   failed>>

\* expand, its first statement: the current object is sent on the channel
\* when its type and relation are the targets; the send waits for room and
\* panics on a closed channel
ExpandEmit(p) ==
    /\ ~luPanicked
    /\ p \in DOMAIN tasks
    /\ LET t == tasks[p]
           r == t.req
       IN  /\ t.pc = "expand"
           /\ Emits(r) => Len(foundObjectsCh) < FoundCap
           /\ IF Emits(r) /\ foundClosed
              THEN /\ luPanicked' = TRUE
                   /\ UNCHANGED <<tasks, foundObjectsCh, levels, sent>>
              ELSE /\ luPanicked' = luPanicked
                   /\ foundObjectsCh' = IF Emits(r) THEN Append(foundObjectsCh, r.obj)
                                                    ELSE foundObjectsCh
                   /\ sent' = IF Emits(r) THEN sent \cup {r.obj} ELSE sent
                   /\ levels' = levels \cup {r}
                   /\ tasks' = [tasks EXCEPT ![p].pc = "rewrite"]
    /\ UNCHANGED <<beyondList, config, stream, producer, foundClosed, collector,
                   foundObjects, done, expandErrCh, luRet, failed>>

\* expand after its emission: the type system, the relation and the switch
\* on its rewrite; for This and TupleToUserset the tuples are read and
\* filtered, for ComputedUserset expand is called on the rewritten request,
\* any other rewrite panics
ExpandRewrite(p) ==
    /\ ~luPanicked
    /\ p \in DOMAIN tasks
    /\ LET t == tasks[p]
           r == t.req
           x == Resolved(r)
       IN  /\ t.pc = "rewrite"
           /\ IF x.kind = "panic"
              THEN /\ luPanicked' = TRUE
                   /\ UNCHANGED <<tasks, failed>>
              ELSE /\ luPanicked' = luPanicked
                   /\ failed' = (failed \/ x.kind = "error")
                   /\ tasks' =
                        CASE x.kind = "error" -> Returned(tasks, p, x.err)
                          [] x.kind = "computed" ->
                               [tasks EXCEPT ![p].req = x.req, ![p].pc = "expand"]
                          [] x.kind = "read" ->
                               [tasks EXCEPT ![p].pc = "iter", ![p].mode = x.mode,
                                   ![p].cr = x.cr, ![p].k = 1,
                                   ![p].tuples = SelectSeq(Read(r.obj, x.rel), Valid)]
    /\ UNCHANGED <<beyondList, config, stream, producer, foundObjectsCh, foundClosed,
                   collector, foundObjects, done, expandErrCh, luRet, levels, sent>>

\* expandDirect, expandTTU: the Read fails, on a faulty datastore or with
\* the error of a context that is cancelled when Read is called
ExpandReadFails(p) ==
    /\ ~luPanicked
    /\ p \in DOMAIN tasks
    /\ LET t == tasks[p]
           r == t.req
       IN  /\ t.pc = "rewrite"
           /\ Resolved(r).kind = "read"
           /\ dsFaulty \/ TaskCtxDone(p)
           /\ failed' = TRUE
           /\ tasks' = Returned(tasks, p, IF TaskCtxDone(p) THEN ErrCanceled ELSE ErrRead)
    /\ UNCHANGED <<beyondList, config, stream, producer, foundObjectsCh, foundClosed,
                   collector, foundObjects, done, expandErrCh, luRet, luPanicked, levels,
                   sent>>

\* expandDirect, expandTTU: one turn of the loop over the filtered tuples
Iterate(p) ==
    /\ ~luPanicked
    /\ p \in DOMAIN tasks
    /\ LET t == tasks[p]
           r == t.req
       IN  /\ t.pc = "iter"
           /\ t.k <= Len(t.tuples)
           /\ LET u == t.tuples[t.k].user IN
                IF t.mode = "direct" /\ u.rel = ""
                THEN /\ FoundOne(r, u) => Len(foundObjectsCh) < FoundCap
                     /\ IF FoundOne(r, u) /\ foundClosed
                        THEN /\ luPanicked' = TRUE
                             /\ UNCHANGED <<tasks, foundObjectsCh, sent>>
                        ELSE /\ luPanicked' = luPanicked
                             /\ foundObjectsCh' =
                                  IF FoundOne(r, u)
                                  THEN Append(foundObjectsCh, UserObject(u))
                                  ELSE foundObjectsCh
                             /\ sent' = IF FoundOne(r, u) THEN sent \cup {UserObject(u)}
                                                          ELSE sent
                             /\ tasks' = [tasks EXCEPT ![p].k = @ + 1]
                ELSE /\ Cardinality(PoolRunning(p)) < resolveNodeBreadthLimit
                     /\ Len(p) < MaxPath
                     /\ tasks' = (Append(p, t.k) :> NewTask(SubRequest(t, u))) @@
                                 [tasks EXCEPT ![p].k = @ + 1]
                     /\ UNCHANGED <<foundObjectsCh, sent, luPanicked>>
    /\ UNCHANGED <<beyondList, config, stream, producer, foundClosed, collector, foundObjects,
                   done, expandErrCh, luRet, levels, failed>>

\* filteredIter.Next returns ErrIteratorDone: the loop is left
IterateDone(p) ==
    /\ ~luPanicked
    /\ p \in DOMAIN tasks
    /\ tasks[p].pc = "iter"
    /\ tasks[p].k > Len(tasks[p].tuples)
    /\ tasks' = [tasks EXCEPT ![p].pc = "wait"]
    /\ UNCHANGED <<beyondList, config, stream, producer, foundObjectsCh, foundClosed, collector,
                   foundObjects, done, expandErrCh, luRet, luPanicked, levels, sent,
                   failed>>

\* filteredIter.Next returns another error: "return err", without pool.Wait
IterateFails(p) ==
    /\ ~luPanicked
    /\ p \in DOMAIN tasks
    /\ tasks[p].pc = "iter"
    /\ dsFaulty
    /\ tasks' = Returned(tasks, p, ErrRead)
    /\ failed' = TRUE
    /\ UNCHANGED <<beyondList, config, stream, producer, foundObjectsCh, foundClosed, collector,
                   foundObjects, done, expandErrCh, luRet, luPanicked, levels, sent>>

\* "return pool.Wait()": every task of the pool has returned
PoolWait(p) ==
    /\ ~luPanicked
    /\ p \in DOMAIN tasks
    /\ tasks[p].pc = "wait"
    /\ PoolRunning(p) = {}
    /\ tasks' = Returned([tasks EXCEPT ![p].poolCancelled = TRUE], p, WaitError(p))
    /\ UNCHANGED <<beyondList, config, stream, producer, foundObjectsCh, foundClosed, collector,
                   foundObjects, done, expandErrCh, luRet, luPanicked, levels, sent,
                   failed>>

\* the producer: expand returned an error, "expandErrCh <- err"
ProducerSendErr ==
    /\ ~luPanicked
    /\ producer = "running"
    /\ tasks[Root].pc = "returned"
    /\ tasks[Root].err # NoError
    /\ expandErrCh' = Append(expandErrCh, tasks[Root].err)
    /\ producer' = "exited"
    /\ UNCHANGED <<beyondList, config, stream, tasks, foundObjectsCh, foundClosed, collector,
                   foundObjects, done, luRet, luPanicked, levels, sent, failed>>

\* the producer: expand returned nil, "close(foundObjectsCh)"
ProducerClose ==
    /\ ~luPanicked
    /\ producer = "running"
    /\ tasks[Root].pc = "returned"
    /\ tasks[Root].err = NoError
    /\ foundClosed' = TRUE
    /\ producer' = "exited"
    /\ UNCHANGED <<beyondList, config, stream, tasks, foundObjectsCh, collector, foundObjects,
                   done, expandErrCh, luRet, luPanicked, levels, sent, failed>>

\* the collector: "for foundObject := range foundObjectsCh", one object
CollectorReceive ==
    /\ ~luPanicked
    /\ ~luStreamed
    /\ collector = "range"
    /\ foundObjectsCh # <<>>
    /\ foundObjects' = Append(foundObjects, Head(foundObjectsCh))
    /\ foundObjectsCh' = Tail(foundObjectsCh)
    /\ UNCHANGED <<beyondList, config, stream, tasks, producer, foundClosed, collector, done,
                   expandErrCh, luRet, luPanicked, levels, sent, failed>>

\* the collector of StreamedListUsers: "for foundObject := range
\* foundObjectsCh", one object is received
CollectorStream ==
    /\ ~luPanicked
    /\ luStreamed
    /\ collector = "range"
    /\ foundObjectsCh # <<>>
    /\ foundObject' = <<Head(foundObjectsCh)>>
    /\ foundObjectsCh' = Tail(foundObjectsCh)
    /\ collector' = "send"
    /\ UNCHANGED <<beyondList, config, srvObjects, tasks, producer, foundClosed,
                   foundObjects, done, expandErrCh, luRet, luPanicked, levels, sent,
                   failed>>

\* the collector of StreamedListUsers: srv.Send returns; the object is on
\* the stream, or Send failed, the error is ignored and the object is lost
CollectorSend(ok) ==
    /\ ~luPanicked
    /\ collector = "send"
    /\ srvObjects' = IF ok THEN Append(srvObjects, foundObject[1]) ELSE srvObjects
    /\ foundObject' = <<>>
    /\ collector' = "range"
    /\ UNCHANGED <<beyondList, config, tasks, producer, foundObjectsCh, foundClosed,
                   foundObjects, done, expandErrCh, luRet, luPanicked, levels, sent,
                   failed>>

RangeEndsWhenEmpty(ch, closed) == ch = <<>>

\* "for ... := range ch" ends when the channel is closed and drained
RangeEnds(ch, closed) == ch = <<>> /\ closed

\* the collector: the channel is closed and empty, "done <- struct{}{}"
CollectorDone ==
    /\ ~luPanicked
    /\ collector = "range"
    /\ RangeEnds(foundObjectsCh, foundClosed)
    /\ done' = TRUE
    /\ collector' = "exited"
    /\ UNCHANGED <<beyondList, config, stream, tasks, producer, foundObjectsCh, foundClosed,
                   foundObjects, expandErrCh, luRet, luPanicked, levels, sent, failed>>

\* ListUsers: "case err := <-expandErrCh: return nil, err"
ListUsersReturnErr ==
    /\ ~luPanicked
    /\ ~luStreamed
    /\ producer # "none"
    /\ ~luRet.returned
    /\ expandErrCh # <<>>
    /\ luRet' = [returned |-> TRUE, resp |-> FALSE, objects |-> <<>>,
                 err |-> Head(expandErrCh)]
    /\ expandErrCh' = Tail(expandErrCh)
    /\ UNCHANGED <<beyondList, config, stream, tasks, producer, foundObjectsCh, foundClosed,
                   collector, foundObjects, done, luPanicked, levels, sent, failed>>

\* ListUsers: "case <-done", the response holds foundObjects
ListUsersReturnDone ==
    /\ ~luPanicked
    /\ ~luStreamed
    /\ producer # "none"
    /\ ~luRet.returned
    /\ done
    /\ luRet' = [returned |-> TRUE, resp |-> TRUE, objects |-> foundObjects,
                 err |-> NoError]
    /\ done' = FALSE
    /\ UNCHANGED <<beyondList, config, stream, tasks, producer, foundObjectsCh, foundClosed,
                   collector, foundObjects, expandErrCh, luPanicked, levels, sent,
                   failed>>

\* StreamedListUsers: "case err := <-expandErrCh: return err"
StreamedReturnErr ==
    /\ ~luPanicked
    /\ luStreamed
    /\ producer # "none"
    /\ ~luRet.returned
    /\ expandErrCh # <<>>
    /\ luRet' = [returned |-> TRUE, resp |-> FALSE, objects |-> <<>>,
                 err |-> Head(expandErrCh)]
    /\ expandErrCh' = Tail(expandErrCh)
    /\ UNCHANGED <<beyondList, config, stream, tasks, producer, foundObjectsCh,
                   foundClosed, collector, foundObjects, done, luPanicked, levels, sent,
                   failed>>

\* StreamedListUsers: "case <-done", "return nil"
StreamedReturnDone ==
    /\ ~luPanicked
    /\ luStreamed
    /\ producer # "none"
    /\ ~luRet.returned
    /\ done
    /\ luRet' = [returned |-> TRUE, resp |-> FALSE, objects |-> <<>>, err |-> NoError]
    /\ done' = FALSE
    /\ UNCHANGED <<beyondList, config, stream, tasks, producer, foundObjectsCh,
                   foundClosed, collector, foundObjects, expandErrCh, luPanicked, levels,
                   sent, failed>>

\* The scenarios of ListUsers: a model, the tuples that may be stored (no
\* cycle among them) and the requests asked.
ListScenarios ==
    { [model |-> ModelDocument, related |-> RelatedDocument,
       tuples |-> <<Tuple(Doc1, "viewer", Jon),
                    Tuple(Doc1, "viewer", Userset("document", "2", "viewer")),
                    Tuple(Doc2, "viewer", Maria)>>,
       objs |-> {Doc1}, rels |-> {"viewer", "can_read", "editor"},
       targets |-> {Ref("user", ""), Ref("document", "viewer"),
                    Ref("document", "editor")}],
      [model |-> ModelGroup, related |-> RelatedGroup,
       tuples |-> <<Tuple(Obj("group", "eng"), "member", Jon),
                    Tuple(Obj("group", "eng"), "member", Userset("group", "fga", "member")),
                    Tuple(Obj("group", "fga"), "member", Userset("group", "ops", "member")),
                    Tuple(Obj("group", "ops"), "member", User("user", "andres"))>>,
       objs |-> {Obj("group", "eng")}, rels |-> {"member"},
       targets |-> {Ref("user", ""), Ref("group", "member")}],
      [model |-> ModelParent, related |-> RelatedParent,
       tuples |-> <<Tuple(Doc1, "parent", User("org", "a")),
                    Tuple(Doc1, "parent", User("folder", "x")),
                    Tuple(Obj("folder", "x"), "viewer", Maria)>>,
       objs |-> {Doc1}, rels |-> {"viewer", "parent"},
       targets |-> {Ref("user", ""), Ref("folder", "")}] }

\* no Check is under way
NoChecking ==
    /\ frames = <<>>
    /\ callerCancelled = FALSE
    /\ rootReq = NoReq
    /\ rootK = 1
    /\ rootRet = NoRet
    /\ panicked = FALSE
    /\ guards = 0
    /\ zeroHit = FALSE
    /\ zeroWork = FALSE
    /\ errSeen = FALSE
    /\ iterLeaked = FALSE

InitList ==
    /\ \E sc \in ListScenarios :
          /\ model = sc.model
          /\ related = sc.related
          /\ store \in Stores(sc.tuples)
          /\ \E o \in sc.objs, r \in sc.rels, tg \in sc.targets :
                luReq = ListRequest(o, r, tg.type, tg.rel)
    /\ typesystemInCtx \in BOOLEAN
    /\ dsFaulty \in BOOLEAN
    /\ resolveNodeBreadthLimit \in 1..MaxBreadth
    /\ tasks = <<>>
    /\ producer = "none"
    /\ foundObjectsCh = <<>>
    /\ foundClosed = FALSE
    /\ collector = "none"
    /\ foundObjects = <<>>
    /\ done = FALSE
    /\ expandErrCh = <<>>
    /\ luRet = NoListRet
    /\ luPanicked = FALSE
    /\ levels = {}
    /\ sent = {}
    /\ failed = FALSE
    /\ luStreamed \in BOOLEAN
    /\ srvObjects = <<>>
    /\ foundObject = <<>>
    /\ NoChecking
    /\ NoHedging
    /\ NoViewing
    /\ NoIndexing

NextList ==
    \/ ListUsersCall
    \/ StreamedListUsersCall
    \/ \E p \in DOMAIN tasks : ExpandEmit(p)
    \/ \E p \in DOMAIN tasks : ExpandRewrite(p)
    \/ \E p \in DOMAIN tasks : ExpandReadFails(p)
    \/ \E p \in DOMAIN tasks : Iterate(p)
    \/ \E p \in DOMAIN tasks : IterateDone(p)
    \/ \E p \in DOMAIN tasks : IterateFails(p)
    \/ \E p \in DOMAIN tasks : PoolWait(p)
    \/ ProducerSendErr
    \/ ProducerClose
    \/ CollectorReceive
    \/ CollectorStream
    \/ \E ok \in BOOLEAN : CollectorSend(ok)
    \/ CollectorDone
    \/ ListUsersReturnErr
    \/ ListUsersReturnDone
    \/ StreamedReturnErr
    \/ StreamedReturnDone

SpecList == InitList /\ [][NextList]_vars

----------------------------------------------------------------------------
(* Properties of ListUsers (specification SpecList). *)

\* the objects of a response, duplicates ignored
Objects(resp) == {resp[j] : j \in 1..Len(resp)}

\* the users a Check may be asked about: those of the tuples and two more
Candidates == {Jon, Maria} \cup {store[j].user : j \in 1..Len(store)}

\* a depth no Check on the store exhausts: every dispatch follows a tuple
\* or moves to another relation
EnoughDepth ==
    Len(store) + Cardinality(UNION {DOMAIN model[ty] : ty \in DOMAIN model}) + 1

\* the objects u of type ty for which Check(object#relation@u) is allowed
Holders(obj, rel, ty) ==
    {UserObject(u) : u \in
        {v \in Candidates :
            /\ v.rel = "" /\ v.type = ty
            /\ SeqHandler(DispatchHandler(NewRequest(obj, rel, v, EnoughDepth)))
                  = Allowed}}

\* C18: over valid tuples without a cycle and for a target type without a
\* target relation, the objects of a response of ListUsers are exactly the
\* objects u of the target type for which Check(object#relation@u) is
\* allowed.
C18_ListUsersIsDualOfCheck ==
    (/\ luRet.returned /\ luRet.resp
     /\ luReq.trel = ""
     /\ \A j \in 1..Len(store) : Valid(store[j]))
        => Objects(luRet.objects) = Holders(luReq.obj, luReq.rel, luReq.ttype)

\* group:eng#member lists jon, a direct member, and andres, a member of
\* group:ops whose members are members of group:fga and so of group:eng
C18_Witness ==
    /\ luRet.returned /\ luRet.resp
    /\ luReq = ListRequest(Obj("group", "eng"), "member", "user", "")
    /\ Len(store) = 4
    /\ Objects(luRet.objects) = {Obj("user", "jon"), Obj("user", "andres")}

\* C19: every expand call, at whatever level and however reached, compares
\* with the target type and target relation of the original request, and
\* has emitted its object if the object's type is the target type and its
\* relation the target relation.
C19_EmissionAtEveryLevel ==
    \A l \in levels :
        /\ l.ttype = luReq.ttype /\ l.trel = luReq.trel
        /\ (l.obj.type = luReq.ttype /\ l.rel = luReq.trel) => l.obj \in sent

\* C20: once an expand call has returned an error ListUsers never returns
\* a response, and what it returns then is an error without objects; and it
\* does return.
C20_Reported ==
    ~luStreamed =>
        /\ (failed /\ luRet.returned)
              => (~luRet.resp /\ luRet.err # NoError /\ luRet.objects = <<>>)
        /\ (luRet.returned /\ ~luRet.resp) => failed

C20_ErrorAndNoResponse == []C20_Reported /\ (failed ~> luRet.returned)

\* the expansion of folder:x has sent maria, the one of org:a has failed:
\* the error is returned and maria is not
C20_Witness ==
    /\ luRet.returned /\ ~luRet.resp /\ luRet.err = ErrRelationUndefined
    /\ Obj("user", "maria") \in sent
    /\ Len(store) = 3

SpecListLive == InitList /\ [][NextList]_vars /\ WF_vars(NextList)

----------------------------------------------------------------------------
(* The bounded quantile approximator of the hedger.  A digest is the       *)
(* sequence of the samples added to it since its last Reset, each of       *)
(* weight 1; durations are whole milliseconds.                             *)

MaxSamples == 3
MaxSample == 2
InitialThreshold == 20

\* the quantiles asked, in percent
Quantiles == {50, 99}

\* TDigest.Count
Count(d) == Len(d)

\* TDigest.Quantile of an empty digest
NaN == -1

\* TDigest.Quantile: the sample of rank q percent, NaN without samples
DigestQuantile(d, q) ==
    IF d = <<>> THEN NaN
    ELSE LET k == (q * Len(d) + 99) \div 100
         IN  CHOOSE x \in {d[j] : j \in 1..Len(d)} :
                /\ Cardinality({j \in 1..Len(d) : d[j] < x}) < k
                /\ Cardinality({j \in 1..Len(d) : d[j] <= x}) >= k

\* NewBoundedQuantileApproximator: the main digest holds the initial hedge
\* threshold, the swap digest is empty
NewBoundedQuantileApproximator == <<<<InitialThreshold>>, <<>>>>

\* boundedQuantileApproximator.Add(x, 1): when the main digest holds
\* maxSamples samples the swap digest becomes the main one and the old main
\* digest is reset; then x is added to both
StAdd(ds, m, x) ==
    IF Count(ds[1]) >= m
    THEN <<Append(ds[2], x), <<x>>>>
    ELSE <<Append(ds[1], x), Append(ds[2], x)>>

beyondHedge == <<checking, listing, viewing, indexing, model, related, store>>

QuantileAdd(x) ==
    /\ tdigests # <<>>
    /\ hedgerPc = "none"
    /\ tdigests' = StAdd(tdigests, maxSamples, x)
    /\ UNCHANGED <<beyondHedge, maxSamples, quantileSec, hedgeKind, hedgerPc, timer,
                   hctxCancelled, calls, once, hIter, hErr, resolved, duration,
                   hedgeRet, resolvedAtFire, completions, readOrder>>

\* boundedQuantileApproximator.Quantile(q): read from the main digest
QuantileRead(q) ==
    /\ tdigests # <<>>
    /\ hedgerPc = "none"
    /\ quantileSec' = DigestQuantile(tdigests[1], q)
    /\ UNCHANGED <<beyondHedge, maxSamples, tdigests, hedgeKind, hedgerPc, timer,
                   hctxCancelled, calls, once, hIter, hErr, resolved, duration,
                   hedgeRet, resolvedAtFire, completions, readOrder>>

InitQuantile ==
    /\ maxSamples \in 1..MaxSamples
    /\ tdigests = NewBoundedQuantileApproximator
    /\ quantileSec = NoQuantile
    /\ NoHedgedRead
    /\ NoChecking
    /\ NoListing
    /\ NoViewing
    /\ NoIndexing
    /\ model = <<>>
    /\ related = <<>>
    /\ store = <<>>

NextQuantile ==
    \/ \E x \in 1..MaxSample : QuantileAdd(x)
    \/ \E q \in Quantiles : QuantileRead(q)

SpecQuantile == InitQuantile /\ [][NextQuantile]_vars

\* C23: the main digest, the one Quantile reads, never holds more than
\* maxSamples samples and never holds none.
C23_MainDigestBounded ==
    tdigests # <<>> => (Count(tdigests[1]) >= 1 /\ Count(tdigests[1]) <= maxSamples)

----------------------------------------------------------------------------
(* One hedged call of the datastore: the hedger goroutine, the timer and   *)
(* at most two invocations of the hedged function, the original (1) and    *)
(* the duplicate (2).  An invocation takes up to three steps: its          *)
(* downstream read returns; it passes once.Do, running the function when   *)
(* it is the first to do so; and, when it is the slowest resolver, it      *)
(* stops its iterator and closes its channel.  The outcome of a downstream *)
(* read is an input: it succeeds or fails.                                 *)

IteratorKinds == {"Read", "ReadUsersetTuples", "ReadStartingWithUser"}
HedgeKinds == IteratorKinds \cup {"ReadPage", "ReadUserTuple"}

\* q.Add(duration.Seconds(), 1) is given the measured duration
Durations == 1..MaxSample

\* a receive from the channel can proceed: a value is buffered or it is closed
Ready(ch) == ch.made /\ (ch.buf > 0 \/ ch.closed)

\* the channel after one receive
Receive(ch) == IF ch.buf > 0 THEN [ch EXCEPT !.buf = 0] ELSE ch

\* resolved <- struct{}{} on a channel of capacity 1 that nobody else sends on
Send(ch) == IF ch.closed \/ ch.buf > 0 THEN [ch EXCEPT !.twice = TRUE]
            ELSE [ch EXCEPT !.buf = 1]

\* close(resolved)
Close(ch) == IF ch.closed THEN [ch EXCEPT !.twice = TRUE]
             ELSE [ch EXCEPT !.closed = TRUE]

\* make(chan struct{}, 1)
MakeChan == [made |-> TRUE, buf |-> 0, closed |-> FALSE, twice |-> FALSE]

OnceDoAlways(ran) == TRUE

\* once.Do(f) runs f when no call of Do has run it before
OnceDo(ran) == ~ran

\* the condition under which the slowest resolver stops its iterator and
\* closes its channel: innerErr == nil for the reads that return an
\* iterator, always for ReadPage and ReadUserTuple
SlowestCloses(kind, ok) == IF kind \in IteratorKinds THEN ok ELSE TRUE

\* what a downstream read hands back: an open iterator, a value, or nil
\* with an error
InnerResult(kind, ok) ==
    IF ~ok THEN "nil" ELSE IF kind \in IteratorKinds THEN "open" ELSE "value"

\* h.hedger(ctx, hedgedfunc) up to the first select: the context, the
\* channel, the quantile, the timer and the original invocation
HedgerStart(q) ==
    /\ hedgerPc = "none"
    /\ hedgeKind \in HedgeKinds
    /\ quantileSec' = DigestQuantile(tdigests[1], q)
    /\ timer' = "armed"
    /\ resolved' = [resolved EXCEPT ![1] = MakeChan]
    /\ calls' = [calls EXCEPT ![1].pc = "reading"]
    /\ hedgerPc' = "select1"
    /\ UNCHANGED <<beyondHedge, maxSamples, tdigests, hedgeKind, hctxCancelled, once,
                   hIter, hErr, duration, hedgeRet, resolvedAtFire, completions, readOrder>>

\* the timer expires: a value is ready on timer.C
TimerFires ==
    /\ timer = "armed"
    /\ timer' = "fired"
    /\ resolvedAtFire' = (calls[1].pc = "done")
    /\ UNCHANGED <<beyondHedge, maxSamples, tdigests, quantileSec, hedgeKind, hedgerPc,
                   hctxCancelled, calls, once, hIter, hErr, resolved, duration,
                   hedgeRet, completions, readOrder>>

\* the hedged function of invocation i: its downstream read returns, with
\* an iterator or a value (ok) or with an error
ReadReturns(i, ok) ==
    /\ calls[i].pc = "reading"
    /\ calls' = [calls EXCEPT ![i] =
                    [pc |-> "once", innerIter |-> InnerResult(hedgeKind, ok),
                     innerErr |-> ~ok, slowest |-> TRUE]]
    /\ readOrder' = Append(readOrder, i)
    /\ UNCHANGED <<beyondHedge, maxSamples, tdigests, quantileSec, hedgeKind, hedgerPc,
                   timer, hctxCancelled, once, hIter, hErr, resolved, duration, hedgeRet,
                   resolvedAtFire, completions>>

\* the hedged function of invocation i: once.Do.  The first to pass runs
\* the function: it stores its outcome and publishes, and is done.  The
\* other finds the function run: it is the slowest resolver, and is done
\* unless it has an iterator to stop and a channel to close.
Resolve(i) ==
    /\ calls[i].pc = "once"
    /\ LET first == OnceDo(once)
           stops == ~first /\ SlowestCloses(hedgeKind, ~calls[i].innerErr)
       IN  /\ calls' = [calls EXCEPT ![i].pc = IF stops THEN "slowest" ELSE "done",
                                     ![i].slowest = ~first]
           /\ once' = TRUE
           /\ hIter' = IF first THEN (IF calls[i].innerErr THEN 0 ELSE i) ELSE hIter
           /\ hErr' = IF first THEN calls[i].innerErr ELSE hErr
           /\ resolved' = [resolved EXCEPT ![i] = IF first THEN Send(@) ELSE @]
           /\ completions' = IF stops THEN completions ELSE Append(completions, i)
    /\ UNCHANGED <<beyondHedge, maxSamples, tdigests, quantileSec, hedgeKind, hedgerPc,
                   timer, hctxCancelled, duration, hedgeRet, resolvedAtFire, readOrder>>

\* the slowest resolver: "innerIter.Stop(); close(resolved)"
SlowestStops(i) ==
    /\ calls[i].pc = "slowest"
    /\ calls' = [calls EXCEPT ![i].pc = "done",
                              ![i].innerIter = IF @ = "open" THEN "stopped" ELSE @]
    /\ resolved' = [resolved EXCEPT ![i] = Close(@)]
    /\ completions' = Append(completions, i)
    /\ UNCHANGED <<beyondHedge, maxSamples, tdigests, quantileSec, hedgeKind, hedgerPc,
                   timer, hctxCancelled, once, hIter, hErr, duration, hedgeRet,
                   resolvedAtFire, readOrder>>

\* first select, case <-resolved
SelectResolved(d) ==
    /\ hedgerPc = "select1"
    /\ Ready(resolved[1])
    /\ resolved' = [resolved EXCEPT ![1] = Receive(@)]
    /\ duration' = d
    /\ hedgerPc' = "add"
    /\ UNCHANGED <<beyondHedge, maxSamples, tdigests, quantileSec, hedgeKind, timer,
                   hctxCancelled, calls, once, hIter, hErr, hedgeRet, resolvedAtFire,
                   completions, readOrder>>

\* first select, case <-timer.C: the duplicate invocation is launched on a
\* channel of its own
SelectTimer ==
    /\ hedgerPc = "select1"
    /\ timer = "fired"
    /\ timer' = "received"
    /\ resolved' = [resolved EXCEPT ![2] = MakeChan]
    /\ calls' = [calls EXCEPT ![2].pc = "reading"]
    /\ hedgerPc' = "select2"
    /\ UNCHANGED <<beyondHedge, maxSamples, tdigests, quantileSec, hedgeKind,
                   hctxCancelled, once, hIter, hErr, duration, hedgeRet, resolvedAtFire,
                   completions, readOrder>>

\* second select, case <-resolved
HedgedSelectResolved(d) ==
    /\ hedgerPc = "select2"
    /\ Ready(resolved[1])
    /\ resolved' = [resolved EXCEPT ![1] = Receive(@)]
    /\ duration' = d
    /\ hedgerPc' = "add"
    /\ UNCHANGED <<beyondHedge, maxSamples, tdigests, quantileSec, hedgeKind, timer,
                   hctxCancelled, calls, once, hIter, hErr, hedgeRet, resolvedAtFire,
                   completions, readOrder>>

\* second select, case <-hedgedResolved
HedgedSelectHedged(d) ==
    /\ hedgerPc = "select2"
    /\ Ready(resolved[2])
    /\ resolved' = [resolved EXCEPT ![2] = Receive(@)]
    /\ duration' = d
    /\ hedgerPc' = "add"
    /\ UNCHANGED <<beyondHedge, maxSamples, tdigests, quantileSec, hedgeKind, timer,
                   hctxCancelled, calls, once, hIter, hErr, hedgeRet, resolvedAtFire,
                   completions, readOrder>>

\* q.Add, the deferred cancel of the context, and the return of the
\* datastore method with what the once stored
HedgerAdd ==
    /\ hedgerPc = "add"
    /\ tdigests' = StAdd(tdigests, maxSamples, duration)
    /\ hctxCancelled' = TRUE
    /\ hedgeRet' = [returned |-> TRUE, iter |-> hIter, err |-> hErr]
    /\ hedgerPc' = "done"
    /\ UNCHANGED <<beyondHedge, maxSamples, quantileSec, hedgeKind, timer, calls, once,
                   hIter, hErr, resolved, duration, resolvedAtFire, completions, readOrder>>

InitHedge ==
    /\ maxSamples \in 1..MaxSamples
    /\ tdigests = NewBoundedQuantileApproximator
    /\ quantileSec = NoQuantile
    /\ hedgeKind \in HedgeKinds
    /\ hedgerPc = "none"
    /\ timer = "none"
    /\ hctxCancelled = FALSE
    /\ calls = <<NoCall, NoCall>>
    /\ once = FALSE
    /\ hIter = 0
    /\ hErr = FALSE
    /\ resolved = <<NoChan, NoChan>>
    /\ duration = 0
    /\ hedgeRet = NoHedgeRet
    /\ resolvedAtFire = FALSE
    /\ completions = <<>>
    /\ readOrder = <<>>
    /\ NoChecking
    /\ NoListing
    /\ NoViewing
    /\ NoIndexing
    /\ model = <<>>
    /\ related = <<>>
    /\ store = <<>>

NextHedge ==
    \/ \E q \in Quantiles : HedgerStart(q)
    \/ TimerFires
    \/ \E i \in {1, 2}, ok \in BOOLEAN : ReadReturns(i, ok)
    \/ \E i \in {1, 2} : Resolve(i)
    \/ \E i \in {1, 2} : SlowestStops(i)
    \/ \E d \in Durations : SelectResolved(d)
    \/ SelectTimer
    \/ \E d \in Durations : HedgedSelectResolved(d)
    \/ \E d \in Durations : HedgedSelectHedged(d)
    \/ HedgerAdd

SpecHedge == InitHedge /\ [][NextHedge]_vars

\* the invocation that completed first: the one that ran the function of
\* the once
First == completions[1]

\* the invocation whose downstream read returned first
FirstRead == readOrder[1]

\* C21 (as stated): a hedged Read, ReadUsersetTuples or ReadStartingWithUser
\* returns the outcome of the downstream read that returned first and of
\* no other, and the iterator of the read that returned second is stopped
\* when it opened without error and is never the one returned.
C21_FirstReadWins ==
    hedgeKind \in IteratorKinds =>
        /\ hedgeRet.returned =>
              /\ readOrder # <<>>
              /\ hedgeRet.err = calls[FirstRead].innerErr
              /\ hedgeRet.iter = (IF calls[FirstRead].innerErr THEN 0 ELSE FirstRead)
        /\ (Len(readOrder) = 2 /\ calls[readOrder[2]].pc = "done") =>
              LET second == readOrder[2]
              IN  /\ calls[second].innerIter = (IF calls[second].innerErr THEN "nil" ELSE "stopped")
                  /\ hIter # second
                  /\ hedgeRet.iter # second

\* C21 (amended): a hedged Read, ReadUsersetTuples or ReadStartingWithUser
\* returns the outcome of the invocation that passed once.Do first and of
\* no other, whichever downstream read returned first; the iterator of the
\* other invocation is stopped when it opened without error and is never
\* the one returned.
C21_FirstWins ==
    hedgeKind \in IteratorKinds =>
        /\ hedgeRet.returned =>
              /\ completions # <<>>
              /\ hedgeRet.err = calls[First].innerErr
              /\ hedgeRet.iter = (IF calls[First].innerErr THEN 0 ELSE First)
              /\ hedgeRet.iter # 0 => calls[hedgeRet.iter].innerIter = "open"
        /\ Len(completions) = 2 =>
              LET second == completions[2]
              IN  /\ calls[second].innerIter = (IF calls[second].innerErr THEN "nil" ELSE "stopped")
                  /\ hIter # second
                  /\ hedgeRet.iter # second

\* the read of the original returned first, the duplicate passed the once
\* first: its iterator is the one returned and the original's is stopped
C21_Witness ==
    /\ hedgeKind = "Read"
    /\ hedgeRet.returned
    /\ hedgeRet.iter = 2
    /\ readOrder = <<1, 2>>
    /\ completions = <<2, 1>>
    /\ calls[1].innerIter = "stopped"

\* the duplicate invocation has been issued
Hedged == calls[2].pc # "none"

\* the timer fired while the original invocation had not resolved
FiredBeforeResolved == timer \in {"fired", "received"} /\ ~resolvedAtFire

\* no duplicate is issued when the original resolved before the timer fired
C22_OnlyIfSlow == Hedged => FiredBeforeResolved

\* a duplicate is issued when the timer fired before the original resolved
C22_IfSlow == (hedgerPc \in {"add", "done"} /\ FiredBeforeResolved) => Hedged

\* C22: the duplicate is issued if and only if the original invocation has
\* not resolved when the quantile timer fires, and at most two downstream
\* reads are issued by one hedged call.
C22_HedgedIffSlow ==
    /\ C22_OnlyIfSlow
    /\ C22_IfSlow
    /\ Len(readOrder) <= 2
    /\ \A i \in DOMAIN readOrder : \A j \in DOMAIN readOrder :
          readOrder[i] = readOrder[j] => i = j

----------------------------------------------------------------------------
(* The materializer.  A statement is kept in the structure Materialize     *)
(* gives it: the CTEs in the order they are written, each with its name    *)
(* and its query, and the SELECTs of the final UNION ALL.  A query is a    *)
(* term that names the SQL text the code formats and carries its           *)
(* arguments; Eval gives what the engine answers to the text, an error or  *)
(* the rows it selects.  A row is a record of the six columns.             *)

PostgresMaterializerDialect == "postgresql"
MySQLMaterializerDialect == "mysql"
MaterializeMaterializerDialect == "materialize"
Dialects == {PostgresMaterializerDialect, MySQLMaterializerDialect,
             MaterializeMaterializerDialect, "sqlite", ""}

\* fmt.Sprintf("%s_%s", objectType, relation)
StatementName(objectType, relation) == objectType \o "_" \o relation

\* materializeDirect: the tuples of the relation whose subject is an object
\* of a directly related type, and for every directly related userset type
\* the rows of its CTE joined with the tuples that name the userset
materializeDirect(objectType, relation) ==
    LET refs == related[objectType][relation]
    IN  [name |-> StatementName(objectType, relation),
         sql |-> [tag |-> "direct", objectType |-> objectType, relation |-> relation,
                  subjectTypes |-> {x.type : x \in {y \in refs : y.rel = ""}},
                  nested |-> {y \in refs : y.rel # ""}]]

\* materializeComputedUserset: the rows of the CTE of the rewritten
\* relation under the name of this relation
materializeComputedUserset(objectType, relation, rewrittenRelation) ==
    [name |-> StatementName(objectType, relation),
     sql |-> [tag |-> "computed", relation |-> relation,
              from |-> StatementName(objectType, rewrittenRelation)]]

\* materializeTupleToUserset: the tupleset tuples whose subject type defines
\* the computed relation, and the join of this CTE with the CTE of the
\* computed relation of each such subject type
materializeTupleToUserset(objectType, relation, ttuRewrite) ==
    LET relatedTypes == related[objectType][ttuRewrite.tr]
        subjectTypes == {x.type : x \in {y \in relatedTypes :
                                            RelationDefined(y.type, ttuRewrite.cr)}}
    IN  [name |-> StatementName(objectType, relation),
         sql |-> [tag |-> "ttu", objectType |-> objectType,
                  self |-> StatementName(objectType, relation),
                  tuplesetRelation |-> ttuRewrite.tr,
                  computedRelation |-> ttuRewrite.cr,
                  subjectTypes |-> subjectTypes]]

RECURSIVE materializeInternalWithRewrite(_, _, _)
materializeInternalWithRewrite(objectType, relation, rewrite) ==
    LET child(j) == materializeInternalWithRewrite(objectType, relation, rewrite.kids[j]).sql
        children == [j \in 1..Len(rewrite.kids) |-> child(j)]
        name == StatementName(objectType, relation)
    IN  CASE rewrite.tag = "this" -> materializeDirect(objectType, relation)
          [] rewrite.tag = "computed" ->
                materializeComputedUserset(objectType, relation, rewrite.rel)
          [] rewrite.tag = "ttu" ->
                materializeTupleToUserset(objectType, relation, rewrite)
          [] rewrite.tag = "union" ->
                [name |-> name, sql |-> [tag |-> "union", kids |-> children]]
          [] rewrite.tag = "intersection" ->
                [name |-> name, sql |-> [tag |-> "intersection", kids |-> children]]
          [] rewrite.tag = "difference" ->
                [name |-> name,
                 sql |-> [tag |-> "difference", base |-> child(1), subtract |-> child(2),
                          relation |-> relation]]

materializeInternal(objectType, relation) ==
    materializeInternalWithRewrite(objectType, relation, GetRelation(objectType, relation))

StatementFmtPostgres(dialect) == "WITH RECURSIVE"

\* the switch on the dialect: the format of the statement, "" for a
\* dialect that is not supported
StatementFmt(dialect) ==
    CASE dialect \in {PostgresMaterializerDialect, MySQLMaterializerDialect} ->
            "WITH RECURSIVE"
      [] dialect = MaterializeMaterializerDialect -> "WITH MUTUALLY RECURSIVE"
      [] OTHER -> ""

\* the statements map after the pairs were visited in this order: a later
\* statement replaces an earlier one of the same name
Statements(visit) ==
    LET names == {StatementName(visit[j][1], visit[j][2]) : j \in 1..Len(visit)}
        last(n) == CHOOSE j \in 1..Len(visit) :
                      /\ StatementName(visit[j][1], visit[j][2]) = n
                      /\ \A k \in (j + 1)..Len(visit) :
                            StatementName(visit[k][1], visit[k][2]) # n
    IN  [n \in names |-> materializeInternal(visit[last(n)][1], visit[last(n)][2])]

Unsupported == [returned |-> TRUE, statement |-> <<>>, err |-> TRUE]

\* Materialize, the pairs visited in the order visit and the statements
\* map ranged over in the order given (a sequence of its keys)
Materialize(dialect, visit, order) ==
    LET statements == Statements(visit)
        n == Len(order)
        last(i) == (i - 1) >= n - 1
    IN  IF n > 0 /\ StatementFmt(dialect) = "" THEN Unsupported
        ELSE IF StatementFmt(dialect) = "" THEN Unsupported
        ELSE [returned |-> TRUE,
              statement |->
                 [with |-> StatementFmt(dialect),
                  viewbody |-> [i \in 1..n |->
                                  [name |-> order[i],
                                   typed |-> dialect = MaterializeMaterializerDialect,
                                   sql |-> statements[order[i]].sql,
                                   comma |-> ~last(i)]],
                  viewselect |-> [i \in 1..n |->
                                    [from |-> order[i], unionAll |-> ~last(i)]]],
              err |-> FALSE]

\* the table tuples
Row(st, sid, srel, rel, ot, oid) ==
    [subject_type |-> st, subject_id |-> sid, subject_relation |-> srel,
     relation |-> rel, object_type |-> ot, object_id |-> oid]
RowOf(t) == Row(t.user.type, t.user.id, t.user.rel, t.rel, t.obj.type, t.obj.id)
TuplesTable == {RowOf(store[j]) : j \in 1..Len(store)}

\* the rows of a CTE, none for a name the view does not define
From(env, name) == IF name \in DOMAIN env THEN env[name] ELSE {}

IntersectKeyed(operands) ==
    {r \in operands[1] :
        \A j \in 2..Len(operands) :
            \E o \in operands[j] :
                /\ o.subject_type = r.subject_type /\ o.subject_id = r.subject_id
                /\ o.object_type = r.object_type /\ o.object_id = r.object_id}

\* SELECT ... FROM operand_0 WHERE EXISTS (SELECT FROM operand_1, ...), or
\* SELECT ... FROM operand_0 when there is one operand
Intersect(operands) ==
    IF Len(operands) > 1
    THEN IF \A j \in 2..Len(operands) : operands[j] # {} THEN operands[1] ELSE {}
    ELSE operands[1]

SubtractNothing(base, subtract, relation) ==
    {[b EXCEPT !.relation = relation] : b \in base}

\* SELECT ..., 'relation', ... FROM base b WHERE NOT EXISTS (SELECT FROM
\* subtract s WHERE the subject and the object of b and s are equal)
Subtract(base, subtract, relation) ==
    {[b EXCEPT !.relation = relation] :
        b \in {r \in base :
                 ~\E o \in subtract :
                     /\ r.subject_type = o.subject_type /\ r.subject_id = o.subject_id
                     /\ r.object_type = o.object_type /\ r.object_id = o.object_id}}

\* the text begins with WITH: that of an Intersection or a Difference, or
\* of a Union whose first child begins with it
RECURSIVE BeginsWith(_)
BeginsWith(q) ==
    CASE q.tag \in {"intersection", "difference"} -> TRUE
      [] q.tag = "union" -> Len(q.kids) > 0 /\ BeginsWith(q.kids[1])
      [] OTHER -> FALSE

\* the fourth column of the rows of the text is named relation: the names
\* are those of the first SELECT, which selects the column relation of
\* tuples (direct, tuple to userset) or of operand_0 (Intersection), or the
\* literal '<relation>' without a name (computed userset, Difference)
RECURSIVE NamesRelation(_)
NamesRelation(q) ==
    CASE q.tag \in {"direct", "ttu", "intersection"} -> TRUE
      [] q.tag \in {"computed", "difference"} -> FALSE
      [] q.tag = "union" -> Len(q.kids) > 0 /\ NamesRelation(q.kids[1])

\* the engine accepts the text.  It rejects an empty list after IN (no
\* subject type), the text of a tuple to userset that ends with UNION (no
\* subject type defines the computed relation), a WITH after UNION (an
\* Intersection or a Difference that is not the first child of a Union)
\* and the SELECT of an Intersection when operand_0 has no column relation
RECURSIVE Accepted(_)
Accepted(q) ==
    CASE q.tag \in {"direct", "ttu"} -> q.subjectTypes # {}
      [] q.tag = "computed" -> TRUE
      [] q.tag = "union" ->
            /\ Len(q.kids) > 0
            /\ \A j \in 1..Len(q.kids) : Accepted(q.kids[j])
            /\ \A j \in 2..Len(q.kids) : ~BeginsWith(q.kids[j])
      [] q.tag = "intersection" ->
            /\ Len(q.kids) > 0
            /\ \A j \in 1..Len(q.kids) : Accepted(q.kids[j])
            /\ NamesRelation(q.kids[1])
      [] q.tag = "difference" -> Accepted(q.base) /\ Accepted(q.subtract)

\* the rows a text the engine accepts selects when the CTEs hold the rows
\* of env
RECURSIVE Select(_, _)
Select(q, env) ==
    CASE q.tag = "direct" ->
            {t \in TuplesTable :
                /\ t.object_type = q.objectType /\ t.relation = q.relation
                /\ t.subject_type \in q.subjectTypes /\ t.subject_relation = ""}
            \cup
            UNION {
              {Row(r.subject_type, r.subject_id, r.subject_relation, q.relation,
                   t.object_type, t.object_id) :
                 <<r, t>> \in
                   {<<r, t>> \in From(env, StatementName(x.type, x.rel)) \X TuplesTable :
                       /\ t.subject_type = x.type /\ t.subject_relation = x.rel
                       /\ t.relation = q.relation /\ t.object_type = q.objectType
                       /\ t.subject_type = r.object_type /\ t.subject_id = r.object_id
                       /\ t.subject_relation = r.relation}} : x \in q.nested}
      [] q.tag = "computed" ->
            {[r EXCEPT !.relation = q.relation] : r \in From(env, q.from)}
      [] q.tag = "ttu" ->
            {t \in TuplesTable :
                /\ t.subject_type \in q.subjectTypes
                /\ t.relation = q.tuplesetRelation /\ t.object_type = q.objectType}
            \cup
            UNION {
              {Row(i.subject_type, i.subject_id, i.subject_relation, q.computedRelation,
                   p.object_type, p.object_id) :
                 <<p, i>> \in
                   {<<p, i>> \in From(env, q.self)
                                   \X From(env, StatementName(st, q.computedRelation)) :
                       /\ p.relation = q.tuplesetRelation /\ p.object_type = q.objectType
                       /\ p.subject_type = i.object_type /\ p.subject_id = i.object_id
                       /\ i.relation = q.computedRelation}} : st \in q.subjectTypes}
      [] q.tag = "union" ->
            UNION {Select(q.kids[j], env) : j \in 1..Len(q.kids)}
      [] q.tag = "intersection" ->
            Intersect([j \in 1..Len(q.kids) |-> Select(q.kids[j], env)])
      [] q.tag = "difference" ->
            Subtract(Select(q.base, env), Select(q.subtract, env), q.relation)

\* what the engine answers to a query: an error for a text it does not
\* accept, the rows the text selects otherwise
Eval(q, env) ==
    IF Accepted(q) THEN [err |-> FALSE, rows |-> Select(q, env)]
    ELSE [err |-> TRUE, rows |-> {}]

\* one iteration of the mutually recursive view: every CTE in the order of
\* the statement, from the rows the CTEs hold at that moment
RECURSIVE EvalAll(_, _, _)
EvalAll(viewbody, env, k) ==
    IF k > Len(viewbody) THEN env
    ELSE EvalAll(viewbody,
                 [env EXCEPT ![viewbody[k].name] = Eval(viewbody[k].sql, env).rows],
                 k + 1)

\* the orders a map is ranged over: every order of its keys
Orders(seq) ==
    LET n == Len(seq)
        arrangements == {f \in [1..n -> 1..n] :
                            \A i \in 1..n : \A j \in 1..n : f[i] = f[j] => i = j}
    IN  {[i \in 1..n |-> seq[f[i]]] : f \in arrangements}

\* the orders in which the relations of the type system are visited: the
\* map of the types in any order and, for each type, the map of its
\* relations in any order
Visits(pairs) ==
    {v \in Orders(pairs) :
        \A i \in 1..Len(v) : \A k \in i..Len(v) :
            v[i][1] = v[k][1] => \A j \in i..k : v[j][1] = v[i][1]}

\* the names of the pairs, each once, in the order of the pairs
RECURSIVE NameSeq(_)
NameSeq(pairs) ==
    IF pairs = <<>> THEN <<>>
    ELSE LET rest == NameSeq(SubSeq(pairs, 1, Len(pairs) - 1))
             n == StatementName(pairs[Len(pairs)][1], pairs[Len(pairs)][2])
         IN  IF \E j \in 1..Len(rest) : rest[j] = n THEN rest ELSE Append(rest, n)

beyondView == <<checking, listing, hedging, indexing, model, related, store,
               mPairs>>

\* Materialize(in)
MaterializeCall(dialect, visit, order) ==
    /\ ~mOut.returned
    /\ mDialect' = dialect
    /\ mOut' = Materialize(dialect, visit, order)
    /\ UNCHANGED <<beyondView, view, viewPc>>

\* the engine accepts the statement: it has a CTE and a SELECT (a model
\* without relations gives "WITH MUTUALLY RECURSIVE ;") and the engine
\* accepts the text of every CTE
StatementAccepted(statement) ==
    /\ Len(statement.viewbody) > 0
    /\ Len(statement.viewselect) > 0
    /\ \A j \in 1..Len(statement.viewbody) : Accepted(statement.viewbody[j].sql)

\* the statement is run on the engine: the view is created, every CTE
\* empty, when the engine accepts the statement, and rejected otherwise
ViewStart ==
    /\ mOut.returned /\ ~mOut.err
    /\ mDialect = MaterializeMaterializerDialect
    /\ viewPc = "none"
    /\ IF StatementAccepted(mOut.statement)
       THEN /\ view' = [n \in {mOut.statement.viewbody[j].name :
                                  j \in 1..Len(mOut.statement.viewbody)} |-> {}]
            /\ viewPc' = "iterating"
       ELSE /\ view' = view
            /\ viewPc' = "rejected"
    /\ UNCHANGED <<beyondView, mDialect, mOut>>

\* one iteration; the evaluation ends when an iteration changes nothing
ViewStep ==
    /\ viewPc = "iterating"
    /\ LET next == EvalAll(mOut.statement.viewbody, view, 1)
       IN  IF next = view
           THEN viewPc' = "fixed" /\ UNCHANGED view
           ELSE view' = next /\ UNCHANGED viewPc
    /\ UNCHANGED <<beyondView, mDialect, mOut>>

\* document.blocked: [user, document#viewer];
\* document.viewer: [user] but not blocked
ModelBlocked ==
    [document |-> [blocked |-> This,
                   viewer |-> Difference(This, ComputedUserset("blocked"))],
     user |-> NoRelations]
RelatedBlocked ==
    [document |-> [blocked |-> {Ref("user", ""), Ref("document", "viewer")},
                   viewer |-> {Ref("user", "")}],
     user |-> NoRefs]

\* group.member: [user]; document.allowed: [user];
\* document.viewer: [user, group#member] and allowed
ModelAllowed ==
    [group |-> [member |-> This],
     document |-> [allowed |-> This,
                   viewer |-> Intersection(<<This, ComputedUserset("allowed")>>)],
     user |-> NoRelations]
RelatedAllowed ==
    [group |-> [member |-> {Ref("user", "")}],
     document |-> [allowed |-> {Ref("user", "")},
                   viewer |-> {Ref("user", ""), Ref("group", "member")}],
     user |-> NoRefs]
\* document.allowed: [user]; document.only: the intersection of allowed
\* alone
ModelOnly ==
    [document |-> [allowed |-> This,
                   only |-> Intersection(<<ComputedUserset("allowed")>>)],
     user |-> NoRelations]
RelatedOnly ==
    [document |-> [allowed |-> {Ref("user", "")}, only |-> {}],
     user |-> NoRefs]

\* document.can_read: [user]; document_can.read: [user]
ModelNames ==
    [document |-> [can_read |-> This], document_can |-> [read |-> This],
     user |-> NoRelations]
RelatedNames ==
    [document |-> [can_read |-> {Ref("user", "")}],
     document_can |-> [read |-> {Ref("user", "")}],
     user |-> NoRefs]

\* team.owner: [user]; team.approved: [user];
\* team.seller = owner and approved
ModelSeller ==
    [team |-> [owner |-> This, approved |-> This,
               seller |-> Intersection(<<ComputedUserset("owner"),
                                         ComputedUserset("approved")>>)],
     user |-> NoRelations]
RelatedSeller ==
    [team |-> [owner |-> {Ref("user", "")}, approved |-> {Ref("user", "")},
               seller |-> {}],
     user |-> NoRefs]
\* a model without relations
ModelEmpty == [user |-> NoRelations]
RelatedEmpty == [user |-> NoRefs]

BlockedTuples ==
    <<Tuple(Doc1, "viewer", Jon), Tuple(Doc1, "blocked", Userset("document", "1", "viewer"))>>

ViewScenarios ==
    { [model |-> ModelBlocked, related |-> RelatedBlocked,
       pairs |-> <<<<"document", "blocked">>, <<"document", "viewer">>>>,
       stores |-> {<<>>, BlockedTuples}],
      [model |-> ModelAllowed, related |-> RelatedAllowed,
       pairs |-> <<<<"group", "member">>, <<"document", "allowed">>,
                   <<"document", "viewer">>>>,
       stores |-> {<<Tuple(Doc1, "viewer", Jon)>>,
                   <<Tuple(Doc1, "viewer", Jon), Tuple(Doc2, "allowed", Maria)>>,
                   <<Tuple(Doc1, "viewer", Userset("group", "eng", "member")),
                     Tuple(Obj("group", "eng"), "member", Jon),
                     Tuple(Doc1, "allowed", Jon)>>}],
      [model |-> ModelOnly, related |-> RelatedOnly,
       pairs |-> <<<<"document", "allowed">>, <<"document", "only">>>>,
       stores |-> {<<Tuple(Doc2, "allowed", Maria)>>}],
      [model |-> ModelGroup, related |-> RelatedGroup,
       pairs |-> <<<<"group", "member">>>>,
       stores |-> {<<Tuple(Obj("group", "eng"), "member", Userset("group", "fga", "member")),
                     Tuple(Obj("group", "fga"), "member", Userset("group", "ops", "member")),
                     Tuple(Obj("group", "ops"), "member", User("user", "andres"))>>,
                   <<Tuple(Obj("group", "eng"), "member", Userset("group", "fga", "member")),
                     Tuple(Obj("group", "fga"), "member", Userset("group", "eng", "member"))>>}],
      [model |-> ModelDocument, related |-> RelatedDocument,
       pairs |-> <<<<"document", "viewer">>, <<"document", "can_read">>,
                   <<"document", "editor">>>>,
       stores |-> {<<Tuple(Doc1, "viewer", Jon), Tuple(Doc2, "editor", Maria)>>}],
      [model |-> ModelParent, related |-> RelatedParent,
       pairs |-> <<<<"document", "parent">>, <<"document", "viewer">>,
                   <<"folder", "viewer">>, <<"org", "admin">>>>,
       stores |-> {<<Tuple(Doc1, "parent", User("org", "a")),
                     Tuple(Doc1, "parent", User("folder", "x")),
                     Tuple(Obj("folder", "x"), "viewer", Maria),
                     Tuple(Obj("org", "a"), "admin", Jon)>>}],
      [model |-> ModelSeller, related |-> RelatedSeller,
       pairs |-> <<<<"team", "owner">>, <<"team", "approved">>, <<"team", "seller">>>>,
       stores |-> {<<Tuple(Obj("team", "jazz"), "owner", User("user", "larry")),
                     Tuple(Obj("team", "jazz"), "approved", User("user", "larry"))>>}],
      [model |-> ModelNames, related |-> RelatedNames,
       pairs |-> <<<<"document", "can_read">>, <<"document_can", "read">>>>,
       stores |-> {<<Tuple(Doc1, "can_read", Jon)>>}],
      [model |-> ModelEmpty, related |-> RelatedEmpty,
       pairs |-> <<>>, stores |-> {<<>>}] }

InitView ==
    /\ \E sc \in ViewScenarios :
          /\ model = sc.model
          /\ related = sc.related
          /\ mPairs = sc.pairs
          /\ store \in sc.stores
    /\ mDialect = ""
    /\ mOut = NoOut
    /\ view = <<>>
    /\ viewPc = "none"
    /\ NoChecking
    /\ NoListing
    /\ NoHedging
    /\ NoIndexing

NextView ==
    \/ \E dialect \in Dialects, visit \in Visits(mPairs) :
          \E order \in Orders(NameSeq(visit)) : MaterializeCall(dialect, visit, order)
    \/ ViewStart
    \/ ViewStep

SpecView == InitView /\ [][NextView]_vars

----------------------------------------------------------------------------
(* Properties of the materializer (specification SpecView). *)

\* what SELECT * FROM the view returns
AllRows == UNION {view[n] : n \in DOMAIN view}

\* the subject and the object of a row
RowSubject(r) == [type |-> r.subject_type, id |-> r.subject_id, rel |-> r.subject_relation]
RowObject(r) == Obj(r.object_type, r.object_id)

\* the objects of the store, and its subjects that are objects
ViewObjects == {store[j].obj : j \in 1..Len(store)}
ViewSubjects == {store[j].user : j \in {k \in 1..Len(store) : store[k].user.rel = ""}}

\* every row of the view is allowed by Check
ViewSound ==
    \A r \in AllRows : Member(RowObject(r), r.relation, RowSubject(r), {})

\* whatever Check allows to an object of the store is a row of the view
ViewComplete ==
    \A obj \in ViewObjects : \A rel \in DOMAIN model[obj.type] : \A u \in ViewSubjects :
        Member(obj, rel, u, {}) =>
            Row(u.type, u.id, "", rel, obj.type, obj.id) \in AllRows

\* C24: the fixed point of the view holds a row (subject, relation, object)
\* exactly when Check allows object#relation@subject.
C24_ViewIsCheck == viewPc = "fixed" => (ViewSound /\ ViewComplete)

SupportedDialects ==
    {PostgresMaterializerDialect, MySQLMaterializerDialect, MaterializeMaterializerDialect}

\* C25: for postgresql, mysql and materialize Materialize returns a
\* statement and no error whatever the model, WITH RECURSIVE for the first
\* two and WITH MUTUALLY RECURSIVE for materialize; for any other dialect it
\* returns an error and the empty statement.
C25_DialectPolicy ==
    mOut.returned =>
        IF mDialect \in SupportedDialects
        THEN /\ ~mOut.err
             /\ mOut.statement # <<>>
             /\ mOut.statement.with =
                   (IF mDialect = MaterializeMaterializerDialect
                    THEN "WITH MUTUALLY RECURSIVE" ELSE "WITH RECURSIVE")
        ELSE mOut.err /\ mOut.statement = <<>>

\* the non-stratifiable model is materialized for postgresql
C25_Witness ==
    /\ model = ModelBlocked
    /\ mDialect = PostgresMaterializerDialect
    /\ mOut.returned /\ ~mOut.err
    /\ Len(mOut.statement.viewbody) = 2

PairSet == {mPairs[j] : j \in 1..Len(mPairs)}

\* C26: the statement defines exactly one CTE for each (objectType,
\* relation) pair, distinct pairs have distinct CTE names, the final SELECT
\* names every CTE exactly once, and only the last CTE and the last SELECT
\* carry no separator.
C26_OneCtePerRelation ==
    (mOut.returned /\ ~mOut.err) =>
        LET body == mOut.statement.viewbody
            sel == mOut.statement.viewselect
        IN  /\ Len(body) = Cardinality(PairSet)
            /\ \A pr \in PairSet :
                  Cardinality({j \in 1..Len(body) :
                                  body[j].name = StatementName(pr[1], pr[2])}) = 1
            /\ \A pr \in PairSet : \A qr \in PairSet :
                  pr # qr => StatementName(pr[1], pr[2]) # StatementName(qr[1], qr[2])
            /\ Len(sel) = Len(body)
            /\ \A j \in 1..Len(body) :
                  Cardinality({k \in 1..Len(sel) : sel[k].from = body[j].name}) = 1
            /\ \A j \in 1..Len(body) :
                  /\ body[j].comma = (j < Len(body))
                  /\ sel[j].unionAll = (j < Len(sel))

\* user:jon is a subject of some row of the CTE
JonIn(env, name) == \E r \in From(env, name) : r.subject_id = "jon"

NonStratifiable == model = ModelBlocked /\ store = BlockedTuples

\* the view of the non-stratifiable model is never at a fixed point when
\* the two tuples are stored, and over no tuples its fixed point is empty
C27_FixedOnlyWhenEmpty ==
    model = ModelBlocked =>
        /\ store = BlockedTuples => viewPc # "fixed"
        /\ (store = <<>> /\ viewPc = "fixed") => AllRows = {}

\* every iteration over the two tuples changes the membership of user:jon
\* in document_viewer, and in document_blocked once the view holds a row
C27_Alternates ==
    (NonStratifiable /\ viewPc = "iterating" /\ view' # view) =>
        /\ JonIn(view', "document_viewer") # JonIn(view, "document_viewer")
        /\ AllRows # {} =>
              JonIn(view', "document_blocked") # JonIn(view, "document_blocked")

\* C27: for 'blocked: [user, document#viewer]; viewer: [user] but not
\* blocked' the iteration of the view reaches the empty fixed point over no
\* tuples; over document:1#viewer@user:jon and
\* document:1#blocked@document:1#viewer it never reaches a fixed point, the
\* membership of user:jon alternating with every iteration.
C27_NoFixedPoint ==
    /\ []C27_FixedOnlyWhenEmpty
    /\ [][C27_Alternates]_vars
    /\ (model = ModelBlocked /\ store = <<>> /\ viewPc = "iterating")
          ~> (viewPc = "fixed" /\ AllRows = {})
    /\ (NonStratifiable /\ viewPc = "iterating")
          ~> (JonIn(view, "document_viewer") /\ viewPc = "iterating")
    /\ (NonStratifiable /\ viewPc = "iterating" /\ AllRows # {})
          ~> (~JonIn(view, "document_viewer") /\ viewPc = "iterating")

\* user:jon has left document_viewer and entered document_blocked
C27_Witness ==
    /\ NonStratifiable
    /\ viewPc = "iterating"
    /\ JonIn(view, "document_blocked")
    /\ ~JonIn(view, "document_viewer")

\* the engine goes on evaluating a view it was asked to evaluate
SpecViewLive ==
    InitView /\ [][NextView]_vars /\ WF_vars(ViewStart) /\ WF_vars(ViewStep)

\* the rows of the operands of an Intersection rewrite, from the rows the
\* view holds
Operands(objectType, relation) ==
    LET kids == GetRelation(objectType, relation).kids
    IN  [j \in 1..Len(kids) |->
            Select(materializeInternalWithRewrite(objectType, relation, kids[j]).sql, view)]

\* the engine accepts the CTE of every Intersection rewrite of the model
IntersectionsAccepted ==
    \A pr \in PairSet :
        GetRelation(pr[1], pr[2]).tag = "intersection" =>
            ~Eval(materializeInternal(pr[1], pr[2]).sql, view).err

\* at the fixed point the CTE of an Intersection rewrite holds every row
\* of its first operand when each other operand has a row, whatever the
\* keys of that row, and no row when some other operand has none; with one
\* operand it holds the rows of that operand
RowsByExistence ==
    \A pr \in PairSet :
        GetRelation(pr[1], pr[2]).tag = "intersection" =>
            LET ops == Operands(pr[1], pr[2])
                rows == view[StatementName(pr[1], pr[2])]
            IN  IF Len(ops) = 1 THEN rows = ops[1]
                ELSE IF \E j \in 2..Len(ops) : ops[j] = {} THEN rows = {}
                ELSE rows = ops[1]
\* C29: the CTE of an Intersection rewrite returns rows, those of its first
\* operand when each other operand has a row, whatever the keys of that
\* row, and none when some other operand has no row; with one operand it
\* returns the rows of that operand.
C29_IntersectionByExistence ==
    /\ (mOut.returned /\ ~mOut.err) => IntersectionsAccepted
    /\ viewPc = "fixed" => RowsByExistence
\* the guard by existence on the views that are created
C29_ExistenceWhenAccepted == viewPc = "fixed" => RowsByExistence
\* the engine has rejected a statement whose Intersection has a computed
\* userset for its first operand
ViewRejected ==
    /\ viewPc = "rejected"
    /\ view = <<>>
    /\ ~IntersectionsAccepted

\* user:jon is a viewer of document:1 in the view although only user:maria
\* is allowed, and only on document:2
C29_Witness ==
    /\ model = ModelAllowed
    /\ viewPc = "fixed"
    /\ store = <<Tuple(Doc1, "viewer", Jon), Tuple(Doc2, "allowed", Maria)>>
    /\ view["document_viewer"] = {Row("user", "jon", "", "viewer", "document", "1")}
    /\ view["document_allowed"] = {Row("user", "maria", "", "allowed", "document", "2")}

----------------------------------------------------------------------------
(* The order of the deferred steps of a reducer (specification Spec). *)

\* nothing the reducer started is still running
AllAwaited ==
    /\ R.wg = 0
    /\ R.orch = N + 2
    /\ \A j \in 1..N : R.w[j] \in {"idle", "exited"}

\* cancel, then the wait, then the closes, then the return; no channel is
\* closed before the wait is over
ShutdownSteps ==
    /\ R.pc \in {"drain", "close", "returned"} => R.cancelled
    /\ R.pc \in {"close", "returned"} => AllAwaited
    /\ R.limClosed => R.pc \in {"close", "returned"}
    /\ R.chClosed => R.pc = "returned"
    /\ R.chClosed \/ R.limClosed => AllAwaited

\* the order of shutdown with the semaphore closed by every reducer
C28_SemaphoreAlwaysClosed ==
    /\ ShutdownSteps
    /\ R.pc = "returned" => (R.chClosed /\ R.limClosed)

\* C28: on every return path of union, intersection and exclusion the child
\* scope is cancelled, then the workers and the orchestrator are awaited,
\* then the channels are closed, and then the reducer returns; no channel
\* is closed while a worker may still send on it.  The outcome channels are
\* closed by every reducer, the semaphore by union and intersection only.
C28_ShutdownOrder ==
    /\ ShutdownSteps
    /\ R.pc = "returned" => (R.chClosed /\ (R.limClosed <=> R.kind # "exclusion"))

\* an exclusion has returned on a short circuit, its scope cancelled, its
\* workers gone and its outcome channels closed; its semaphore is open
C28_Witness ==
    /\ R.kind = "exclusion"
    /\ R.pc = "returned"
    /\ Len(R.taken) < N
    /\ R.cancelled /\ R.chClosed /\ ~R.limClosed
    /\ \A j \in 1..N : R.w[j] = "exited"

----------------------------------------------------------------------------
(* What a successful ListUsers has collected (specification SpecList). *)

\* C30: ListUsers returns a response only after expand has returned without
\* error at every level, foundObjectsCh is closed and drained and the
\* collector has ended; the response holds every object that was sent on
\* the channel and nothing else.
C30_NoObjectLost ==
    (luRet.returned /\ luRet.resp) =>
        /\ ~failed
        /\ \A q \in DOMAIN tasks : tasks[q].pc = "returned" /\ tasks[q].err = NoError
        /\ producer = "exited" /\ collector = "exited"
        /\ foundClosed /\ foundObjectsCh = <<>>
        /\ Objects(luRet.objects) = sent
        /\ luRet.objects = foundObjects

\* a response with two objects, sent by expand calls of different levels
C30_Witness ==
    /\ luRet.returned /\ luRet.resp
    /\ Cardinality(sent) >= 2
    /\ Len(luRet.objects) >= 2
    /\ \E q \in DOMAIN tasks : Len(q) >= 2

----------------------------------------------------------------------------
(* The channels of a hedged read and the context of its iterator           *)
(* (specification SpecHedge).                                              *)

\* the invocation that completed last, of two
Last == completions[Len(completions)]

\* invocation i has published on its channel
Published(i) == calls[i].pc = "done" /\ ~calls[i].slowest

\* C31: no invocation sends on a closed channel and no channel is closed
\* twice; the invocation that completes first is the only one that
\* publishes and it publishes once; only the invocation that completes
\* last, of two, closes a channel; the estimator receives exactly one
\* duration per hedged call.
C31_ChannelProtocol ==
    /\ \A i \in {1, 2} :
          /\ ~resolved[i].twice
          /\ resolved[i].buf <= 1
          /\ Published(i) <=> (completions # <<>> /\ i = First)
          /\ resolved[i].buf > 0 => Published(i)
          /\ resolved[i].closed =>
                (Len(completions) = 2 /\ i = Last /\ ~Published(i))
    /\ IF hedgerPc = "done"
       THEN tdigests[2] = <<duration>> /\ duration \in Durations
       ELSE tdigests = NewBoundedQuantileApproximator

\* the duplicate of a ReadPage failed after the original had published; it
\* closed its channel and the hedger has recorded the duration
C31_Witness ==
    /\ hedgeKind = "ReadPage"
    /\ completions = <<1, 2>>
    /\ calls[2].innerErr
    /\ resolved[2].closed /\ ~resolved[1].closed
    /\ hedgerPc = "done"

\* C38: the context under which the iterator handed to the caller was
\* opened is not cancelled by the hedger.
C38_IteratorContextAlive ==
    (hedgeKind \in IteratorKinds /\ hedgeRet.returned /\ hedgeRet.iter # 0) =>
        ~hctxCancelled

----------------------------------------------------------------------------
(* Panics, the closing of the channel and the goroutines of ListUsers      *)
(* (specification SpecList).                                               *)

\* C32: ListUsers never aborts through a panic, whatever rewrite the
\* relation of the request or a relation reached by the expansion has.
C32_NoPanic == ~luPanicked

\* C35: foundObjectsCh is closed only after the root expand has returned
\* without error, and then every pool worker of every nested expansion has
\* returned; nothing is sent on the channel once it is closed.
C35_ClosedAfterExpansion ==
    /\ foundClosed =>
          /\ tasks[Root].pc = "returned" /\ tasks[Root].err = NoError
          /\ \A q \in DOMAIN tasks : tasks[q].pc = "returned"
          /\ producer = "exited"
    /\ luPanicked => ~foundClosed

\* the channel is closed after an expansion with pools nested in pools,
\* whose workers have sent objects
C35_Witness ==
    /\ foundClosed
    /\ collector = "range"
    /\ \E q \in DOMAIN tasks : Len(q) >= 2
    /\ Cardinality(sent) >= 2

\* every goroutine ListUsers started has ended
AllGoroutinesEnded ==
    /\ collector = "exited"
    /\ producer = "exited"
    /\ \A q \in DOMAIN tasks : tasks[q].pc = "returned"

\* C36: after ListUsers has returned, with a response or with an error, the
\* collector, the producer and every pool worker eventually end.
C36_NoGoroutineLeftBehind == luRet.returned ~> AllGoroutinesEnded

----------------------------------------------------------------------------
(* ListUsers on tuples that form a cycle (specifications SpecCycle and      *)
(* SpecCycleLive): the actions are those of SpecList.                       *)

\* group:a#member@group:b#member and group:b#member@group:a#member, and
\* jon a direct member of group:b
CycleTuples ==
    <<Tuple(Obj("group", "a"), "member", Userset("group", "b", "member")),
      Tuple(Obj("group", "b"), "member", Userset("group", "a", "member")),
      Tuple(Obj("group", "b"), "member", Jon)>>

InitCycle ==
    /\ model = ModelGroup
    /\ related = RelatedGroup
    /\ store \in Stores(CycleTuples)
    /\ \E tg \in {Ref("user", ""), Ref("group", "member")} :
          luReq = ListRequest(Obj("group", "a"), "member", tg.type, tg.rel)
    /\ typesystemInCtx \in BOOLEAN
    /\ dsFaulty \in BOOLEAN
    /\ resolveNodeBreadthLimit \in 1..MaxBreadth
    /\ tasks = <<>>
    /\ producer = "none"
    /\ foundObjectsCh = <<>>
    /\ foundClosed = FALSE
    /\ collector = "none"
    /\ foundObjects = <<>>
    /\ done = FALSE
    /\ expandErrCh = <<>>
    /\ luRet = NoListRet
    /\ luPanicked = FALSE
    /\ levels = {}
    /\ sent = {}
    /\ failed = FALSE
    /\ luStreamed \in BOOLEAN
    /\ srvObjects = <<>>
    /\ foundObject = <<>>
    /\ NoChecking
    /\ NoHedging
    /\ NoViewing
    /\ NoIndexing

SpecCycle == InitCycle /\ [][NextList]_vars
SpecCycleLive == InitCycle /\ [][NextList]_vars /\ WF_vars(NextList)

\* a task expands the request that one of the tasks it descends from expands
Revisits(p) ==
    \E q \in DOMAIN tasks :
        Len(q) < Len(p) /\ IsPrefix(q, p) /\ tasks[q].req = tasks[p].req

\* no expansion comes back to a request it is already expanding
NoRevisit == \A p \in DOMAIN tasks : ~Revisits(p)

\* C37: whatever the tuples, a cycle of userset tuples included, the
\* expansion finishes and ListUsers returns, a response or an error.  With
\* reads that do not fail an expand call is determined by its request and
\* the store, so an expansion that finishes never comes back to a request
\* it is expanding.
C37_ListUsersTerminates == [](~dsFaulty => NoRevisit) /\ <>luRet.returned

----------------------------------------------------------------------------
(* The orchestrator of resolver and cancellation (specification Spec). *)

\* C33: once the scope of a union or an intersection is cancelled, by the
\* reducer's cancel() or by the caller, the orchestrator of resolver starts
\* no handler that was not started yet.
C33_NoLaunchAfterCancel ==
    [][\A i \in 1..NumHandlers(frames[Root]) :
          (/\ frames[Root].kind # "exclusion"
           /\ CctxDone(Root)
           /\ frames[Root].w[i] = "idle")
             => frames'[Root].w[i] = "idle"]_vars

----------------------------------------------------------------------------
(* The depth of the requests of a Check (specification SpecCheck). *)

\* a < b as uint32, depths being written as the int32 with the same bits
DepthLess(a, b) ==
    IF a < 0 THEN b < 0 /\ a < b ELSE b < 0 \/ a < b

\* the depth was computed by decrementing 0: it is 2^32 - 1
Wrapped(d) == d = DepthMinusOne(0)

\* C34: no request of a Check carries a depth computed by decrementing 0:
\* the depth of every dispatched sub-request is strictly smaller, as an
\* unsigned number, than the depth of the request it was built for, and no
\* depth is 2^32 - 1.
C34_DepthNeverWraps ==
    \A p \in DOMAIN frames :
        /\ ~Wrapped(frames[p].req.depth)
        /\ \A j \in 1..NumHandlers(frames[p]) :
              LET f == frames[p]
                  hd == f.handlers[j]
              IN  /\ ~Wrapped(hd.req.depth)
                  /\ hd.h = "dispatch" => DepthLess(hd.req.depth, f.req.depth)

\* a sub-request of depth 0 was built for a request of depth 1, and its
\* DispatchCheck was stopped by the depth guard
C34_Witness ==
    /\ zeroHit
    /\ \E p \in DOMAIN frames : \E j \in 1..NumHandlers(frames[p]) :
          /\ frames[p].req.depth = 1
          /\ frames[p].handlers[j].h = "dispatch"
          /\ frames[p].handlers[j].req.depth = 0
          /\ frames[p].w[j] = "exited"

----------------------------------------------------------------------------
(* The indexer: ExpandedReadChanges reads the changelog page by page and,  *)
(* for each change, sends one RelationshipUpdate per (impacted object,     *)
(* impacted subject) pair and then a TupleChangesProcessed marker          *)
(* (specification SpecIndex).  A change is what StreamedListObjects and    *)
(* StreamedListUsers answer for its tuple: the impacted objects and the    *)
(* impacted subjects.  A continuation token is the number of changes it    *)
(* covers.                                                                 *)

MaxChanges == 2       \* the changelog has at most MaxChanges changes
MaxPage == 2          \* ReadChanges returns at most pageSize <= MaxPage changes
MaxFailures == 1      \* at most MaxFailures calls of ExpandedReadChanges fail

Change(objects, subjects) == [objects |-> objects, subjects |-> subjects]

\* the changes of the changelogs: a tuple that impacts no object, one
\* object, or two objects
ChangeKinds ==
    {Change(<<>>, <<"jon">>), Change(<<"d1">>, <<"jon">>),
     Change(<<"d1", "d2">>, <<"jon">>)}

Changelogs == UNION {[1..n -> ChangeKinds] : n \in 1..MaxChanges}

Minimum(a, b) == IF a < b THEN a ELSE b

\* openfgaClient.ReadChanges: the changes that follow the token, a page of
\* them at most, and the token that covers the changes returned
ReadChanges(token) ==
    LET n == Minimum(pageSize, Len(changelog) - token)
    IN  [changes |-> [j \in 1..n |-> token + j], token |-> token + n]

\* "for _, object := range objects { for _, subject := range subjects":
\* the pairs in the order of the two loops
PairsOf(c) ==
    LET os == changelog[c].objects
        ss == changelog[c].subjects
    IN  [j \in 1..(Len(os) * Len(ss)) |->
            <<os[((j - 1) \div Len(ss)) + 1], ss[((j - 1) % Len(ss)) + 1]>>]

\* relationshipStatus of the update of a pair
RelationshipStatus(allowed) ==
    IF allowed THEN "HAS_RELATIONSHIP" ELSE "NO_RELATIONSHIP"

\* the messages of the stream; c is the change being processed
RelationshipUpdate(c, pr) ==
    [type |-> "update", object |-> pr[1], user |-> pr[2],
     status |-> RelationshipStatus(pr \in checkAllowed), token |-> 0, change |-> c]

TupleChangesProcessed(c, token) ==
    [type |-> "marker", object |-> "", user |-> "", status |-> "",
     token |-> token, change |-> c]

\* the token of the last marker of the stream: what a consumer resumes from
LastToken ==
    LET ms == SelectSeq(srvSent, LAMBDA m : m.type = "marker")
    IN  IF ms = <<>> THEN 0 ELSE ms[Len(ms)].token

beyondIndex == <<checking, listing, hedging, viewing, model, related, store>>
indexInputs == <<changelog, pageSize, checkAllowed, clientFaulty>>

\* ExpandedReadChanges is called with the empty continuation token
IndexerCall ==
    /\ indexerPc = "none"
    /\ contToken' = 0
    /\ indexerPc' = "read"
    /\ UNCHANGED <<beyondIndex, indexInputs, failures, changes, toCheck, srvSent>>

\* the outer loop: ReadChanges from contToken; contToken becomes the token
\* of the response; after the last change of a page, Sleep and read again
IndexerReadChanges ==
    /\ indexerPc = "read"
    /\ LET r == ReadChanges(contToken) IN
         /\ changes' = r.changes
         /\ contToken' = r.token
         /\ indexerPc' = IF r.changes = <<>> THEN "read" ELSE "change"
    /\ UNCHANGED <<beyondIndex, indexInputs, failures, toCheck, srvSent>>

\* the next change of the page: StreamedListObjects and StreamedListUsers
\* are read to their ends
IndexerExpandChange ==
    /\ indexerPc = "change"
    /\ toCheck' = PairsOf(Head(changes))
    /\ indexerPc' = "pairs"
    /\ UNCHANGED <<beyondIndex, indexInputs, failures, contToken, changes, srvSent>>

\* the next pair: Check, then srv.Send of its RelationshipUpdate
IndexerSendUpdate ==
    /\ indexerPc = "pairs"
    /\ toCheck # <<>>
    /\ srvSent' = Append(srvSent, RelationshipUpdate(Head(changes), Head(toCheck)))
    /\ toCheck' = Tail(toCheck)
    /\ UNCHANGED <<beyondIndex, indexInputs, failures, contToken, changes, indexerPc>>

\* after the pairs of the change: srv.Send of TupleChangesProcessed with
\* contToken
IndexerSendMarker ==
    /\ indexerPc = "pairs"
    /\ toCheck = <<>>
    /\ srvSent' = Append(srvSent, TupleChangesProcessed(Head(changes), contToken))
    /\ changes' = Tail(changes)
    /\ indexerPc' = IF Tail(changes) = <<>> THEN "read" ELSE "change"
    /\ UNCHANGED <<beyondIndex, indexInputs, failures, contToken, toCheck>>

\* ReadChanges, StreamedListObjects, StreamedListUsers, a Recv or Check
\* returns an error: "return err"
IndexerFail ==
    /\ clientFaulty
    /\ failures < MaxFailures
    /\ \/ indexerPc \in {"read", "change"}
       \/ indexerPc = "pairs" /\ toCheck # <<>>
    /\ failures' = failures + 1
    /\ indexerPc' = "returned"
    /\ changes' = <<>>
    /\ toCheck' = <<>>
    /\ UNCHANGED <<beyondIndex, indexInputs, contToken, srvSent>>

\* the consumer calls ExpandedReadChanges again, with the token of the last
\* marker it received
IndexerResume ==
    /\ indexerPc = "returned"
    /\ contToken' = LastToken
    /\ indexerPc' = "read"
    /\ UNCHANGED <<beyondIndex, indexInputs, failures, changes, toCheck, srvSent>>

InitIndex ==
    /\ changelog \in Changelogs
    /\ pageSize \in 1..MaxPage
    /\ checkAllowed \in SUBSET {<<"d1", "jon">>, <<"d2", "jon">>}
    /\ clientFaulty \in BOOLEAN
    /\ failures = 0
    /\ contToken = 0
    /\ changes = <<>>
    /\ toCheck = <<>>
    /\ indexerPc = "none"
    /\ srvSent = <<>>
    /\ model = <<>>
    /\ related = <<>>
    /\ store = <<>>
    /\ NoChecking
    /\ NoListing
    /\ NoHedging
    /\ NoViewing

NextIndex ==
    \/ IndexerCall
    \/ IndexerReadChanges
    \/ IndexerExpandChange
    \/ IndexerSendUpdate
    \/ IndexerSendMarker
    \/ IndexerFail
    \/ IndexerResume

SpecIndex == InitIndex /\ [][NextIndex]_vars

\* the positions of the stream
Positions == 1..Len(srvSent)

\* before position m, and after the marker before it, every pair of change
\* c has its update
UpdatesSentBefore(c, m) ==
    \A j \in 1..Len(PairsOf(c)) :
        \E k \in 1..(m - 1) :
            /\ srvSent[k].type = "update" /\ srvSent[k].change = c
            /\ <<srvSent[k].object, srvSent[k].user>> = PairsOf(c)[j]

\* the updates of a change come before its marker
UpdatesBeforeMarker ==
    \A m \in Positions :
        srvSent[m].type = "marker" => UpdatesSentBefore(srvSent[m].change, m)

\* an update reports HAS_RELATIONSHIP exactly when the Check is allowed
StatusIsCheck ==
    \A m \in Positions :
        srvSent[m].type = "update" =>
            (srvSent[m].status = "HAS_RELATIONSHIP"
                <=> <<srvSent[m].object, srvSent[m].user>> \in checkAllowed)

\* a marker comes after the updates of every change its token covers
TokenCovered ==
    \A m \in Positions :
        srvSent[m].type = "marker" =>
            \A c \in 1..srvSent[m].token : UpdatesSentBefore(c, m)

\* C39: the updates of a change are sent before its marker, each update
\* reports HAS_RELATIONSHIP exactly when the Check of its pair is allowed,
\* and a marker with token T is sent only after the updates of every change
\* that T covers.
C39_ProgressMarkers == UpdatesBeforeMarker /\ StatusIsCheck /\ TokenCovered

====
